---- MODULE Spec2Model ----
(***************************************************************************)
(* Model of the EDEn tile engine's EntityGrid: the collision map of        *)
(* TileState values, the all-or-nothing occupancy helpers and the          *)
(* two-phase movement protocol (beginMovement / endMovement /             *)
(* abortMovement) declared in src/src/TileEngine/EntityGrid.h.             *)
(* EntityGrid.cpp is not part of the sources at hand: the bodies of the    *)
(* operations follow the header's declarations and documentation and the   *)
(* natural-language specification.                                         *)
(***************************************************************************)
EXTENDS Integers, FiniteSets, Sequences, TLC

(* ---------------------------------------------------------------- bounds *)

\* collisionMapWidth, in tiles.
GridW == 2

\* collisionMapHeight, in tiles.
GridH == 2

\* Most tiles that addObstacle calls may cover before the model stops adding.
MaxObstacleTiles == 1

\* EntityGrid::MOVEMENT_TILE_SIZE, scaled down: pixels per movement tile.
MOVEMENT_TILE_SIZE == 2

(* ------------------------------------------------------------ data types *)

FREE == "FREE"
OBSTACLE == "OBSTACLE"
ACTOR == "ACTOR"
NULL == "NULL"

\* The actors of the model (Actor* values).
Actors == {"a1", "a2"}

\* struct TileState: the kind of occupant and the occupant itself.
TileState(entityType, entity) == [entityType |-> entityType, entity |-> entity]

FreeState == TileState(FREE, NULL)

ObstacleState == TileState(OBSTACLE, NULL)

ActorState(actor) == TileState(ACTOR, actor)

\* shapes::Point2D
Point2D(x, y) == [x |-> x, y |-> y]

\* Tile coordinates of the collision map.
Tiles == [x : 0..(GridW - 1), y : 0..(GridH - 1)]

\* Actor::getWidth, in pixels: a1 is one tile wide, a2 two tiles.
getWidth(actor) == IF actor = "a1" THEN MOVEMENT_TILE_SIZE ELSE 2 * MOVEMENT_TILE_SIZE

\* Actor::getHeight, in pixels.
getHeight(actor) == MOVEMENT_TILE_SIZE

\* No movement in progress.
NoMove == [active |-> FALSE, src |-> Point2D(0, 0), dst |-> Point2D(0, 0)]

\* The movement a successful beginMovement opens.
Move(src, dst) == [active |-> TRUE, src |-> src, dst |-> dst]

(* ------------------------------------------------------------- variables *)

VARIABLES
    collisionMap,   \* EntityGrid::collisionMap : Tiles -> TileState
    location,       \* Actor::getLocation() of every actor, in pixels
    onMap,          \* the actors whose addActor succeeded and that were not removed
    moving,         \* per actor: the src/dst of its unresolved beginMovement
    preAdd,         \* history: the actor and the collision map just before an
                    \* addActor that only removeActor calls for that actor followed
    call,           \* the last call made on the grid and what it returned
    mapData,        \* EntityGrid::map: whether a map is set, and its blocked tiles
    distanceMatrix, \* Pathfinder::distanceMatrix
    successorMatrix,\* Pathfinder::successorMatrix
    aborted,        \* the program was aborted by a failed assertion
    result,         \* the last query made on the grid and what it returned
    directory,      \* the file system: the directory a region is loaded from
    loadPath,       \* XRegion::load: the argument path
    dp,             \* XRegion::load: the entries readdir has not returned yet
    files,          \* XRegion::load: the file names kept for construction
    iter,           \* XRegion::load: the position of the second loop in files
    areas,          \* Region::areas: the maps of the region by name
    loadState,      \* where XRegion::load is: before, inside, returned or dead
    currLine,       \* DialogueController::currLine: NULL or the line
    dialogueTime,   \* DialogueController::dialogueTime
    mainDialogue,   \* DialogueController::mainDialogue: the dialogue box
    signalled       \* the calls of ScriptEngine::signalTicket(0) so far

\* The state of the region loader and of the dialogue controller.
regionVars == <<directory, loadPath, dp, files, iter, areas, loadState>>

dialogueVars == <<currLine, dialogueTime, mainDialogue, signalled>>

vars == <<collisionMap, location, onMap, moving, preAdd, call,
          mapData, distanceMatrix, successorMatrix, aborted, result,
          regionVars, dialogueVars>>

\* The state of the entity grid and its pathfinder.
gridVars == <<collisionMap, location, onMap, moving, preAdd, call,
              mapData, distanceMatrix, successorMatrix, aborted, result>>

\* The state of the pathfinder, the map and the abort flag.
pathVars == <<mapData, distanceMatrix, successorMatrix, aborted>>

(* --------------------------------------------------------------- helpers *)

\* Integer division rounding toward zero, as C++ does.
CDiv(a, b) == IF a >= 0 THEN a \div b ELSE -((-a) \div b)

Min(a, b) == IF a < b THEN a ELSE b

Max(a, b) == IF a > b THEN a ELSE b

\* Map::getWidth / getHeight in pixels.
mapPixelWidth == GridW * MOVEMENT_TILE_SIZE

mapPixelHeight == GridH * MOVEMENT_TILE_SIZE

\* Mutant of withinMap: the right and bottom bounds are taken inclusively.
withinMapInclusive(point) ==
    /\ point.x >= 0 /\ point.x <= mapPixelWidth
    /\ point.y >= 0 /\ point.y <= mapPixelHeight

\* EntityGrid::withinMap(point)
withinMap(point) ==
    /\ point.x >= 0 /\ point.x < mapPixelWidth
    /\ point.y >= 0 /\ point.y < mapPixelHeight

\* EntityGrid::getCollisionMapEdges: the tile boundaries of a pixel rectangle,
\* right and bottom exclusive, clamped to the collision map.
getCollisionMapEdges(area, width, height) ==
    [left   |-> Max(CDiv(area.x, MOVEMENT_TILE_SIZE), 0),
     top    |-> Max(CDiv(area.y, MOVEMENT_TILE_SIZE), 0),
     right  |-> Min(CDiv(area.x + width + MOVEMENT_TILE_SIZE - 1, MOVEMENT_TILE_SIZE), GridW),
     bottom |-> Min(CDiv(area.y + height + MOVEMENT_TILE_SIZE - 1, MOVEMENT_TILE_SIZE), GridH)]

\* The tiles inside a rectangle of tile edges.
TilesIn(rect) ==
    {t \in Tiles : /\ t.x >= rect.left /\ t.x < rect.right
                   /\ t.y >= rect.top  /\ t.y < rect.bottom}

(* ------------------------------------------------- occupancy primitives *)

\* Mutant of canOccupyArea: a tile of the requesting actor blocks as well.
canOccupyAreaNoSelf(grid, area, width, height, state) ==
    /\ withinMap(area)
    /\ withinMap(Point2D(area.x + width - 1, area.y + height - 1))
    /\ \A t \in TilesIn(getCollisionMapEdges(area, width, height)) :
          grid[t].entityType = FREE

\* Mutant of canOccupyArea: only the kind of occupant is compared, so a tile
\* of any actor passes for a tile of the requesting actor.
canOccupyAreaAnyActor(grid, area, width, height, state) ==
    /\ withinMap(area)
    /\ withinMap(Point2D(area.x + width - 1, area.y + height - 1))
    /\ \A t \in TilesIn(getCollisionMapEdges(area, width, height)) :
          \/ grid[t].entityType = FREE
          \/ (state.entityType = ACTOR /\ grid[t].entityType = state.entityType)

\* Mutant of canOccupyArea: only the bounds are checked.
canOccupyAreaBoundsOnly(grid, area, width, height, state) ==
    /\ withinMap(area)
    /\ withinMap(Point2D(area.x + width - 1, area.y + height - 1))

\* EntityGrid::canOccupyArea: the area lies inside the map and every tile it
\* covers is free or already holds the very state that is to be written (a
\* tile of the same actor).  An obstacle or the FREE query state matches no
\* occupied tile.
canOccupyArea(grid, area, width, height, state) ==
    /\ withinMap(area)
    /\ withinMap(Point2D(area.x + width - 1, area.y + height - 1))
    /\ \A t \in TilesIn(getCollisionMapEdges(area, width, height)) :
          \/ grid[t].entityType = FREE
          \/ (state.entityType = ACTOR /\ grid[t] = state)

\* Mutant of setArea: the last column of the rectangle is left out.
setAreaSkipsLastColumn(grid, rect, state) ==
    [t \in Tiles |->
        IF t \in TilesIn([rect EXCEPT !.right = rect.right - 1]) THEN state ELSE grid[t]]

\* EntityGrid::setArea: unconditionally set the tiles of a tile rectangle.
setArea(grid, rect, state) ==
    [t \in Tiles |-> IF t \in TilesIn(rect) THEN state ELSE grid[t]]

\* Mutant of occupyArea: a denied call still writes the tiles that were free.
occupyAreaPartial(grid, area, width, height, state) ==
    IF canOccupyArea(grid, area, width, height, state)
    THEN [ret |-> TRUE,
          grid |-> setArea(grid, getCollisionMapEdges(area, width, height), state)]
    ELSE [ret |-> FALSE,
          grid |-> [t \in Tiles |->
                      IF /\ t \in TilesIn(getCollisionMapEdges(area, width, height))
                         /\ grid[t] = FreeState
                      THEN state ELSE grid[t]]]

\* EntityGrid::occupyArea: all or nothing.  The result holds the return value
\* and the collision map after the call.
occupyArea(grid, area, width, height, state) ==
    IF canOccupyArea(grid, area, width, height, state)
    THEN [ret |-> TRUE,
          grid |-> setArea(grid, getCollisionMapEdges(area, width, height), state)]
    ELSE [ret |-> FALSE, grid |-> grid]

\* Mutant of freeArea: the tiles of the current area are freed as well.
freeAreaIgnoringCurrent(grid, previousLocation, currentLocation, width, height, state) ==
    LET previous == TilesIn(getCollisionMapEdges(previousLocation, width, height))
    IN  [t \in Tiles |->
            IF t \in previous /\ grid[t] = state THEN FreeState ELSE grid[t]]

\* Mutant of freeArea: the area to keep is taken for the area to free, so
\* that the tiles of the previous area stay as they are.
freeAreaKeepsPrevious(grid, previousLocation, currentLocation, width, height, state) ==
    LET previous == TilesIn(getCollisionMapEdges(previousLocation, width, height))
        current  == TilesIn(getCollisionMapEdges(currentLocation, width, height))
    IN  [t \in Tiles |->
            IF t \in current /\ t \notin previous /\ grid[t] = state
            THEN FreeState ELSE grid[t]]

\* Mutant of freeArea: the tiles of the previous area are freed whatever
\* they hold.
freeAreaAnyState(grid, previousLocation, currentLocation, width, height, state) ==
    LET previous == TilesIn(getCollisionMapEdges(previousLocation, width, height))
        current  == TilesIn(getCollisionMapEdges(currentLocation, width, height))
    IN  [t \in Tiles |->
            IF t \in previous /\ t \notin current THEN FreeState ELSE grid[t]]

\* EntityGrid::freeArea(previousLocation, currentLocation, width, height, state):
\* free the tiles of the previous area that hold the given state, keeping the
\* tiles of the current area as they are.
freeArea(grid, previousLocation, currentLocation, width, height, state) ==
    LET previous == TilesIn(getCollisionMapEdges(previousLocation, width, height))
        current  == TilesIn(getCollisionMapEdges(currentLocation, width, height))
    IN  [t \in Tiles |->
            IF t \in previous /\ t \notin current /\ grid[t] = state
            THEN FreeState ELSE grid[t]]

\* The tiles of the whole map attributed to an actor.
TilesOf(grid, actor) == {t \in Tiles : grid[t] = ActorState(actor)}

\* EntityGrid::removeActor's effect on the map: release all tiles currently
\* attributed to the actor.
freeActorTiles(grid, actor) ==
    [t \in Tiles |-> IF grid[t] = ActorState(actor) THEN FreeState ELSE grid[t]]

\* EntityGrid::isAreaFree: the query state is FREE, which matches no occupant.
isAreaFree(grid, area, width, height) ==
    canOccupyArea(grid, area, width, height, FreeState)

(* ------------------------------------------------------------ Pathfinder *)

\* Pathfinder.h declares the class; Pathfinder.cpp is not part of the sources
\* at hand, and the bodies below follow the header's documentation and the
\* natural-language specification.  Costs are kept in thousandths, so that an
\* orthogonal step costs 1000 and a diagonal step Pathfinder::ROOT_2.

\* The cost of an orthogonal step (1, in thousandths).
ORTHOGONAL_COST == 1000

\* Pathfinder::ROOT_2, in thousandths.
ROOT_2 == 1414

\* Pathfinder::INFINITY: the cost between tiles that are not connected.
INFINITY == 1000000

\* The successor matrix entry of a pair with no route.
NO_SUCCESSOR == -1

\* Tile numbers: the tiles counted from left to right, then top to bottom.
TileNums == 0..(GridW * GridH - 1)

\* Pathfinder::coordsToTileNum, for a grid collisionGridWidth tiles wide.
coordsToTileNum(tileLocation, collisionGridWidth) ==
    tileLocation.y * collisionGridWidth + tileLocation.x

\* Pathfinder::tileNumToCoords
tileNumToCoords(tileNum, collisionGridWidth) ==
    Point2D(tileNum % collisionGridWidth, tileNum \div collisionGridWidth)

\* Pathfinder::pixelsToTileNum
pixelsToTileNum(pixelLocation, collisionGridWidth) ==
    coordsToTileNum(Point2D(pixelLocation.x \div MOVEMENT_TILE_SIZE,
                            pixelLocation.y \div MOVEMENT_TILE_SIZE),
                    collisionGridWidth)

\* Pathfinder::tileNumToPixels
tileNumToPixels(tileNum, collisionGridWidth) ==
    Point2D(tileNumToCoords(tileNum, collisionGridWidth).x * MOVEMENT_TILE_SIZE,
            tileNumToCoords(tileNum, collisionGridWidth).y * MOVEMENT_TILE_SIZE)

\* The width, in tiles, of a collision grid, and the numbers of its tiles.
widthOf(grid) == Cardinality({t \in DOMAIN grid : t.y = 0})

tileNumsOf(grid) == 0..(Cardinality(DOMAIN grid) - 1)

Abs(n) == IF n < 0 THEN -n ELSE n

\* Mutant of stepCost: the obstacles are not looked at.
stepCostThroughObstacles(grid, i, j) ==
    LET a  == tileNumToCoords(i, widthOf(grid))
        b  == tileNumToCoords(j, widthOf(grid))
        dx == Abs(a.x - b.x)
        dy == Abs(a.y - b.y)
    IN  IF i = j THEN 0
        ELSE IF dx <= 1 /\ dy <= 1
        THEN (IF dx + dy = 1 THEN ORTHOGONAL_COST ELSE ROOT_2)
        ELSE INFINITY

\* The cost of the step between two tiles of the static grid: 1 between
\* orthogonal neighbours, the square root of 2 between diagonal neighbours,
\* infinite between tiles that are not adjacent and from or to a tile that an
\* obstacle blocks.
stepCost(grid, i, j) ==
    LET a  == tileNumToCoords(i, widthOf(grid))
        b  == tileNumToCoords(j, widthOf(grid))
        dx == Abs(a.x - b.x)
        dy == Abs(a.y - b.y)
    IN  IF grid[a].entityType = OBSTACLE \/ grid[b].entityType = OBSTACLE
        THEN INFINITY
        ELSE IF i = j THEN 0
        ELSE IF dx <= 1 /\ dy <= 1
        THEN (IF dx + dy = 1 THEN ORTHOGONAL_COST ELSE ROOT_2)
        ELSE INFINITY

\* Mutant of directMatrices: only the orthogonal steps are direct steps.
directMatricesOrthogonal(grid) ==
    [distance  |-> [i \in tileNumsOf(grid) |-> [j \in tileNumsOf(grid) |->
                       IF stepCost(grid, i, j) = ROOT_2 THEN INFINITY
                       ELSE stepCost(grid, i, j)]],
     successor |-> [i \in tileNumsOf(grid) |-> [j \in tileNumsOf(grid) |->
                       IF stepCost(grid, i, j) < INFINITY /\ stepCost(grid, i, j) # ROOT_2
                       THEN j ELSE NO_SUCCESSOR]]]

\* The matrices before the first round: the direct steps.
directMatrices(grid) ==
    [distance  |-> [i \in tileNumsOf(grid) |-> [j \in tileNumsOf(grid) |->
                       stepCost(grid, i, j)]],
     successor |-> [i \in tileNumsOf(grid) |-> [j \in tileNumsOf(grid) |->
                       IF stepCost(grid, i, j) < INFINITY THEN j ELSE NO_SUCCESSOR]]]

\* The rounds k, k+1, ... of the Roy-Floyd-Warshall algorithm: a route through
\* tile k replaces the known route of a pair when it is strictly shorter.
RECURSIVE RoyFloydWarshall(_, _)
RoyFloydWarshall(k, m) ==
    IF k \notin DOMAIN m.distance THEN m
    ELSE RoyFloydWarshall(k + 1,
            [distance  |-> [i \in DOMAIN m.distance |-> [j \in DOMAIN m.distance |->
                               Min(m.distance[i][j], m.distance[i][k] + m.distance[k][j])]],
             successor |-> [i \in DOMAIN m.distance |-> [j \in DOMAIN m.distance |->
                               IF m.distance[i][k] + m.distance[k][j] < m.distance[i][j]
                               THEN m.successor[i][k] ELSE m.successor[i][j]]]])

\* Mutant of initRoyFloydWarshallMatrices: the rounds are left out.
initDirectStepsOnly(grid) == directMatrices(grid)

\* Pathfinder::initRoyFloydWarshallMatrices: the distance matrix and the
\* successor matrix of the grid as it is when the pathfinder is initialized.
initRoyFloydWarshallMatrices(grid) == RoyFloydWarshall(0, directMatrices(grid))

\* The tiles after cur on the way to dst, by the successor matrix.
RECURSIVE walkSuccessors(_, _, _)
walkSuccessors(successor, cur, dst) ==
    IF cur = dst \/ successor[cur][dst] = NO_SUCCESSOR THEN <<>>
    ELSE <<successor[cur][dst]>> \o walkSuccessors(successor, successor[cur][dst], dst)

\* The waypoints, in pixels, of a sequence of tile numbers.
waypoints(tileNums, collisionGridWidth) ==
    [k \in 1..Len(tileNums) |-> tileNumToPixels(tileNums[k], collisionGridWidth)]

\* Mutant of findRFWPath: the path starts with the source tile.
findRFWPathFromSource(successor, src, dst, collisionGridWidth) ==
    waypoints(<<pixelsToTileNum(src, collisionGridWidth)>>
                  \o walkSuccessors(successor, pixelsToTileNum(src, collisionGridWidth),
                                    pixelsToTileNum(dst, collisionGridWidth)),
              collisionGridWidth)

\* Pathfinder::findRFWPath: the walk along the successor matrix from the tile
\* of src to the tile of dst; empty when there is no successor.
findRFWPath(successor, src, dst, collisionGridWidth) ==
    waypoints(walkSuccessors(successor, pixelsToTileNum(src, collisionGridWidth),
                             pixelsToTileNum(dst, collisionGridWidth)),
              collisionGridWidth)

\* Mutant of findBestPath: the walk stops after the first lookup.
findBestPathFirstStep(successor, src, dst, collisionGridWidth) ==
    LET path == findRFWPath(successor, src, dst, collisionGridWidth)
    IN  IF path = <<>> THEN <<>> ELSE <<Head(path)>>

\* Pathfinder::findBestPath
findBestPath(successor, src, dst, collisionGridWidth) ==
    findRFWPath(successor, src, dst, collisionGridWidth)

\* Pathfinder::AStarPoint: the accumulated cost from the source, the
\* heuristic estimate to the destination and the predecessor of a tile.
AStarPoint(g, h, parent) == [g |-> g, h |-> h, parent |-> parent]

\* Mutant of startOfSearch: the source is not marked as discovered.
startOfSearchSourceUnmarked(distance, srcTileNum, dstTileNum) ==
    [openSet     |-> <<srcTileNum>>,
     discovered  |-> {},
     points      |-> [n \in TileNums |->
                         AStarPoint(0, distance[n][dstTileNum], NO_SUCCESSOR)],
     discoveries |-> <<srcTileNum>>,
     expanded    |-> <<>>]

\* The state of a search before its first round: only the source is
\* discovered.  The open set lists tiles in the order of their discovery;
\* discoveries and expanded record the tiles that joined the open set and the
\* tiles that were expanded, in order.
startOfSearch(distance, srcTileNum, dstTileNum) ==
    [openSet     |-> <<srcTileNum>>,
     discovered  |-> {srcTileNum},
     points      |-> [n \in TileNums |->
                         AStarPoint(0, distance[n][dstTileNum], NO_SUCCESSOR)],
     discoveries |-> <<srcTileNum>>,
     expanded    |-> <<>>]

\* The neighbours of a tile, in tile coordinates, in the order in which they
\* are enumerated: the orthogonal ones, then the diagonal ones.
orthogonalNodes(c) ==
    <<Point2D(c.x, c.y - 1), Point2D(c.x + 1, c.y),
      Point2D(c.x, c.y + 1), Point2D(c.x - 1, c.y)>>

diagonalNodes(c) ==
    <<Point2D(c.x - 1, c.y - 1), Point2D(c.x + 1, c.y - 1),
      Point2D(c.x + 1, c.y + 1), Point2D(c.x - 1, c.y + 1)>>

\* A tile that the moving entity cannot enter: it is off the grid, or an
\* obstacle or another entity holds it.
tileBlocked(grid, entityState, c) ==
    \/ c \notin Tiles
    \/ ~(grid[c].entityType = FREE \/ grid[c] = entityState)

\* A diagonal step cuts a corner when both orthogonal neighbours it passes
\* between are blocked.
cutsCorner(grid, entityState, from, to) ==
    /\ tileBlocked(grid, entityState, Point2D(from.x, to.y))
    /\ tileBlocked(grid, entityState, Point2D(to.x, from.y))

\* Mutant of canEnter: only the tile the footprint is anchored at is looked at.
canEnterAnchorOnly(grid, entityState, from, to, width, height, diagonal) ==
    /\ to \in Tiles
    /\ ~tileBlocked(grid, entityState, to)
    /\ ~(diagonal /\ cutsCorner(grid, entityState, from, to))

\* An adjacent node is admitted when the whole footprint anchored at it is
\* unobstructed on the live grid and the step to it cuts no corner.
canEnter(grid, entityState, from, to, width, height, diagonal) ==
    /\ to \in Tiles
    /\ canOccupyArea(grid, tileNumToPixels(coordsToTileNum(to, GridW), GridW),
                     width, height, entityState)
    /\ ~(diagonal /\ cutsCorner(grid, entityState, from, to))

\* Pathfinder::evaluateAdjacentNodes, for the adjacent nodes from the k-th on:
\* an undiscovered node that can be entered joins the open set, and a node of
\* the open set takes the route through the evaluated point when it is cheaper.
RECURSIVE evaluateAdjacentNodes(_, _, _, _, _, _, _, _, _, _)
evaluateAdjacentNodes(grid, entityState, adjacentNodes, k, evaluated, traversalCost, width, height, diagonal, s) ==
    IF k > Len(adjacentNodes) THEN s
    ELSE
      LET to   == adjacentNodes[k]
          n    == coordsToTileNum(to, GridW)
          cost == s.points[evaluated].g + traversalCost
          next ==
            IF ~canEnter(grid, entityState, tileNumToCoords(evaluated, GridW), to,
                         width, height, diagonal)
            THEN s
            ELSE IF n \notin s.discovered
            THEN [openSet     |-> Append(s.openSet, n),
                  discovered  |-> s.discovered \cup {n},
                  points      |-> [s.points EXCEPT ![n] =
                                      AStarPoint(cost, s.points[n].h, evaluated)],
                  discoveries |-> Append(s.discoveries, n),
                  expanded    |-> s.expanded]
            ELSE IF (\E i \in 1..Len(s.openSet) : s.openSet[i] = n)
                    /\ cost < s.points[n].g
            THEN [s EXCEPT !.points[n] = AStarPoint(cost, s.points[n].h, evaluated)]
            ELSE s
      IN  evaluateAdjacentNodes(grid, entityState, adjacentNodes, k + 1, evaluated,
                                traversalCost, width, height, diagonal, next)

\* The estimated total cost of a discovered tile.
totalCost(s, n) == s.points[n].g + s.points[n].h

\* The position in the open set of the tile to expand next: the least
\* estimated total cost, and among equals the tile discovered first.
bestOfOpenSet(s) ==
    CHOOSE i \in 1..Len(s.openSet) :
        \A j \in 1..Len(s.openSet) :
            \/ totalCost(s, s.openSet[i]) < totalCost(s, s.openSet[j])
            \/ (totalCost(s, s.openSet[i]) = totalCost(s, s.openSet[j]) /\ i <= j)

\* The tiles from the source (left out) to the given tile, by predecessors.
RECURSIVE pathTo(_, _)
pathTo(points, n) ==
    IF points[n].parent = NO_SUCCESSOR THEN <<>>
    ELSE Append(pathTo(points, points[n].parent), n)

\* The outcome of a search: the tiles of the path and the record of the
\* search.
SearchOutcome(path, s) == [path |-> path, discoveries |-> s.discoveries, expanded |-> s.expanded]

\* The rounds of the A* search: expand the best tile of the open set until it
\* is the destination or the open set is exhausted.
RECURSIVE searchRounds(_, _, _, _, _, _)
searchRounds(grid, entityState, dstTileNum, width, height, s) ==
    IF s.openSet = <<>> THEN SearchOutcome(<<>>, s)
    ELSE
      LET i    == bestOfOpenSet(s)
          cur  == s.openSet[i]
          rest == [s EXCEPT !.openSet =
                      SubSeq(s.openSet, 1, i - 1)
                          \o SubSeq(s.openSet, i + 1, Len(s.openSet)),
                            !.expanded = Append(s.expanded, cur)]
          s1   == evaluateAdjacentNodes(grid, entityState,
                      orthogonalNodes(tileNumToCoords(cur, GridW)), 1, cur,
                      ORTHOGONAL_COST, width, height, FALSE, rest)
          s2   == evaluateAdjacentNodes(grid, entityState,
                      diagonalNodes(tileNumToCoords(cur, GridW)), 1, cur,
                      ROOT_2, width, height, TRUE, s1)
      IN  IF cur = dstTileNum THEN SearchOutcome(pathTo(s.points, cur), rest)
          ELSE searchRounds(grid, entityState, dstTileNum, width, height, s2)

\* The state of the entity that is to move: the actor on the source tile, if
\* there is one.
moverState(grid, src) ==
    IF grid[tileNumToCoords(pixelsToTileNum(src, GridW), GridW)].entityType = ACTOR
    THEN grid[tileNumToCoords(pixelsToTileNum(src, GridW), GridW)]
    ELSE FreeState

\* The A* search of Pathfinder::findAStarPath, from the tile of src.
AStarSearch(grid, distance, src, dst, width, height) ==
    searchRounds(grid, moverState(grid, src), pixelsToTileNum(dst, GridW), width, height,
                 startOfSearch(distance, pixelsToTileNum(src, GridW),
                               pixelsToTileNum(dst, GridW)))

\* Pathfinder::findAStarPath
findAStarPath(grid, distance, src, dst, width, height) ==
    waypoints(AStarSearch(grid, distance, src, dst, width, height).path, GridW)

\* Mutant of unobstructed: the shortcut is never taken.
unobstructedNowhere(grid, entityState, path, width, height) == FALSE

\* The footprint anchored at every waypoint is unobstructed on the live grid.
unobstructed(grid, entityState, path, width, height) ==
    \A k \in 1..Len(path) : canOccupyArea(grid, path[k], width, height, entityState)

\* Mutant of findReroutedPath: the A* search is always made.
findReroutedPathBySearch(grid, distance, successor, src, dst, width, height) ==
    findAStarPath(grid, distance, src, dst, width, height)

\* Pathfinder::findReroutedPath: the ideal path when nothing obstructs it,
\* otherwise the path the A* search finds around obstacles and entities.
findReroutedPath(grid, distance, successor, src, dst, width, height) ==
    LET ideal == findRFWPath(successor, src, dst, GridW)
    IN  IF ideal # <<>> /\ unobstructed(grid, moverState(grid, src), ideal, width, height)
        THEN ideal
        ELSE findAStarPath(grid, distance, src, dst, width, height)

\* The cost of a step between two waypoints and of a path walked from src.
waypointCost(from, to) ==
    IF from.x # to.x /\ from.y # to.y THEN ROOT_2 ELSE ORTHOGONAL_COST

RECURSIVE pathCost(_, _)
pathCost(src, path) ==
    IF path = <<>> THEN 0
    ELSE waypointCost(src, Head(path)) + pathCost(Head(path), Tail(path))

(* ---------------------------------------------------------------- inputs *)

\* Tile-aligned pixel locations: every tile of the map, a location left of the
\* map and a location below it.  (An area two tiles wide that starts in the
\* last column reaches beyond the right edge.)
AlignedPoints ==
    {Point2D(MOVEMENT_TILE_SIZE * i, MOVEMENT_TILE_SIZE * j) :
        i \in 0..(GridW - 1), j \in 0..(GridH - 1)}
    \cup {Point2D(-MOVEMENT_TILE_SIZE, 0), Point2D(0, mapPixelHeight)}

\* Obstacle sizes in pixels: one tile, or two tiles wide.
ObstacleSizes ==
    {<<MOVEMENT_TILE_SIZE, MOVEMENT_TILE_SIZE>>,
     <<2 * MOVEMENT_TILE_SIZE, MOVEMENT_TILE_SIZE>>}

\* The record of a call: the operation, the return value (TRUE for an
\* operation that returns nothing), whether the actor had an unresolved
\* movement when the call was made and, for a call that was not denied, the
\* actor and the pixel area it was about.  A denied call changes nothing, and
\* its arguments are not kept.
Call(op, actor, area, width, height, ret, midMove) ==
    IF ret
    THEN [op |-> op, actor |-> actor, area |-> area,
          width |-> width, height |-> height, ret |-> ret, midMove |-> midMove]
    ELSE [op |-> op, actor |-> NULL, area |-> Point2D(0, 0),
          width |-> 0, height |-> 0, ret |-> ret, midMove |-> midMove]

NoSnapshot == [actor |-> NULL, grid |-> [t \in Tiles |-> FreeState]]

\* A map: its dimensions in tiles and the tiles that its static geometry
\* blocks.
MapOfSize(width, height, blocked) ==
    [loaded |-> TRUE, blocked |-> blocked, width |-> width, height |-> height]

\* A map of GridW by GridH tiles.
Map(blocked) == MapOfSize(GridW, GridH, blocked)

\* No map is set (EntityGrid::map is NULL).
NoMap == [loaded |-> FALSE, blocked |-> {}, width |-> 0, height |-> 0]

\* The tiles of a map.
tilesOfMap(map) == [x : 0..(map.width - 1), y : 0..(map.height - 1)]

\* The collision map that setMapData builds from a map: the blocked tiles hold
\* an obstacle, every other tile is free.
staticGrid(map) ==
    [t \in tilesOfMap(map) |-> IF t \in map.blocked THEN ObstacleState ELSE FreeState]

\* No query was made yet.
NoResult ==
    [op |-> NULL, src |-> Point2D(0, 0), dst |-> Point2D(0, 0),
     width |-> 0, height |-> 0, path |-> <<>>, value |-> NULL]

\* The record of a query: the operation, the points and the size it was
\* asked for, and the path or the value it returned.
Result(op, src, dst, width, height, path, value) ==
    [op |-> op, src |-> src, dst |-> dst, width |-> width, height |-> height,
     path |-> path, value |-> value]

\* The collision map and the matrices of a grid on which no map is set.
NoGrid == <<>>

\* A map is set and the program was not aborted.
Ready == mapData.loaded /\ ~aborted

\* What a call that changes the grid leaves alone: the map, the pathfinder
\* and the abort flag.  The result of an earlier query is forgotten.
mutatorFrame ==
    /\ result' = NoResult
    /\ UNCHANGED pathVars
    /\ UNCHANGED <<regionVars, dialogueVars>>

(* ------------------------------------------- region and dialogue at rest *)

\* There is no directory to load from.
NoDirectory == [exists |-> FALSE, entries |-> {}, malformed |-> {}]

\* No region is being loaded: XRegion::XRegion has built a region without
\* areas and load was not called.
RegionUnloaded ==
    /\ directory = NoDirectory
    /\ loadPath = <<>>
    /\ dp = {}
    /\ files = <<>>
    /\ iter = 1
    /\ areas = <<>>
    /\ loadState = "constructed"

\* DialogueController::initMainDialogue: the box is not editable and not
\* visible and shows no text.
NewDialogueBox == [text |-> <<>>, visible |-> FALSE, opaque |-> FALSE, alignment |-> "LEFT"]

\* currLine is NULL: there is no line of dialogue.
NoLine == [type |-> NULL, dialogue |-> <<>>]

\* DialogueController::DialogueController
DialogueConstructed ==
    /\ currLine = NoLine
    /\ dialogueTime = 0
    /\ mainDialogue = NewDialogueBox
    /\ signalled = 0

(* ----------------------------------------------------------------- Init *)

\* After setMapData on an empty map: every tile free, no actor on the map.
Init ==
    /\ collisionMap = [t \in Tiles |-> FreeState]
    /\ location = [a \in Actors |-> Point2D(0, 0)]
    /\ onMap = {}
    /\ moving = [a \in Actors |-> NoMove]
    /\ preAdd = NoSnapshot
    /\ call = Call("setMapData", NULL, Point2D(0, 0), 0, 0, TRUE, FALSE)
    /\ mapData = Map({})
    /\ distanceMatrix = initRoyFloydWarshallMatrices(staticGrid(Map({}))).distance
    /\ successorMatrix = initRoyFloydWarshallMatrices(staticGrid(Map({}))).successor
    /\ aborted = FALSE
    /\ result = NoResult
    /\ RegionUnloaded
    /\ DialogueConstructed

(* -------------------------------------------------------------- actions *)

\* EntityGrid::addObstacle(area, width, height)
addObstacle(area, width, height) ==
    LET r == occupyArea(collisionMap, area, width, height, ObstacleState)
    IN  /\ Ready
        /\ Cardinality({t \in Tiles : collisionMap[t].entityType = OBSTACLE})
              < MaxObstacleTiles
        /\ collisionMap' = r.grid
        /\ preAdd' = NoSnapshot
        /\ call' = Call("addObstacle", NULL, area, width, height, r.ret, FALSE)
        /\ UNCHANGED <<location, onMap, moving>>
        /\ mutatorFrame

\* EntityGrid::addActor(actor, area), called once for an actor that is being
\* placed on the map; a placed actor's location is the requested area.
addActor(actor, area) ==
    LET r == occupyArea(collisionMap, area, getWidth(actor), getHeight(actor),
                        ActorState(actor))
    IN  /\ Ready
        /\ actor \notin onMap
        /\ collisionMap' = r.grid
        /\ location' = IF r.ret THEN [location EXCEPT ![actor] = area] ELSE location
        /\ onMap' = IF r.ret THEN onMap \cup {actor} ELSE onMap
        /\ preAdd' = [actor |-> actor, grid |-> collisionMap]
        /\ call' = Call("addActor", actor, area, getWidth(actor), getHeight(actor),
                        r.ret, FALSE)
        /\ UNCHANGED moving
        /\ mutatorFrame

\* Mutant of removeActor: only the tiles under the actor's current location
\* are freed.
removeActorUnderLocation(actor) ==
    /\ Ready
    /\ mutatorFrame
    /\ collisionMap' =
          [t \in Tiles |->
              IF /\ t \in TilesIn(getCollisionMapEdges(location[actor],
                                       getWidth(actor), getHeight(actor)))
                 /\ collisionMap[t] = ActorState(actor)
              THEN FreeState ELSE collisionMap[t]]
    /\ onMap' = onMap \ {actor}
    /\ moving' = [moving EXCEPT ![actor] = NoMove]
    /\ preAdd' = IF preAdd.actor = actor THEN preAdd ELSE NoSnapshot
    /\ location' = [location EXCEPT ![actor] = Point2D(0, 0)]
    /\ call' = Call("removeActor", actor, Point2D(0, 0),
                    getWidth(actor), getHeight(actor), TRUE, moving[actor].active)

\* EntityGrid::removeActor(actor): also called for an actor that could not be
\* placed, or that is in the middle of a movement.  The actor object is
\* gone afterwards: its location is reset.
removeActor(actor) ==
    /\ Ready
    /\ mutatorFrame
    /\ collisionMap' = freeActorTiles(collisionMap, actor)
    /\ onMap' = onMap \ {actor}
    /\ moving' = [moving EXCEPT ![actor] = NoMove]
    /\ preAdd' = IF preAdd.actor = actor THEN preAdd ELSE NoSnapshot
    /\ location' = [location EXCEPT ![actor] = Point2D(0, 0)]
    /\ call' = Call("removeActor", actor, Point2D(0, 0),
                    getWidth(actor), getHeight(actor), TRUE, moving[actor].active)

\* What EntityGrid::beginMovement(actor, dst) returns and the collision map it
\* leaves: it occupies the destination for the actor, all or nothing.
beginMovementResult(grid, actor, dst) ==
    occupyArea(grid, dst, getWidth(actor), getHeight(actor), ActorState(actor))

\* EntityGrid::beginMovement(actor, dst)
beginMovement(actor, dst) ==
    LET r == beginMovementResult(collisionMap, actor, dst)
    IN  /\ Ready
        /\ actor \in onMap
        /\ ~moving[actor].active
        /\ collisionMap' = r.grid
        /\ moving' = IF r.ret
                     THEN [moving EXCEPT ![actor] = Move(location[actor], dst)]
                     ELSE moving
        /\ preAdd' = NoSnapshot
        /\ call' = Call("beginMovement", actor, dst, getWidth(actor), getHeight(actor),
                        r.ret, FALSE)
        /\ UNCHANGED <<location, onMap>>
        /\ mutatorFrame

\* One pixel toward a coordinate.
Toward(from, to) == IF from < to THEN from + 1 ELSE IF from > to THEN from - 1 ELSE from

\* The moving actor advances one pixel toward its destination (the caller's
\* traversal between beginMovement and endMovement/abortMovement).
ActorStep(actor) ==
    /\ Ready
    /\ moving[actor].active
    /\ location[actor] # moving[actor].dst
    /\ location' = [location EXCEPT ![actor] =
                       Point2D(Toward(location[actor].x, moving[actor].dst.x),
                               Toward(location[actor].y, moving[actor].dst.y))]
    /\ preAdd' = NoSnapshot
    /\ call' = Call("step", NULL, Point2D(0, 0), 0, 0, TRUE, TRUE)
    /\ UNCHANGED <<collisionMap, onMap, moving>>
    /\ mutatorFrame

\* EntityGrid::endMovement(actor, src, dst), called once the actor has arrived.
\* The call record keeps src; dst is the actor's location.
endMovement(actor) ==
    /\ Ready
    /\ moving[actor].active
    /\ location[actor] = moving[actor].dst
    /\ collisionMap' = freeArea(collisionMap, moving[actor].src, moving[actor].dst,
                                getWidth(actor), getHeight(actor), ActorState(actor))
    /\ moving' = [moving EXCEPT ![actor] = NoMove]
    /\ preAdd' = NoSnapshot
    /\ call' = Call("endMovement", actor, moving[actor].src,
                    getWidth(actor), getHeight(actor), TRUE, TRUE)
    /\ UNCHANGED <<location, onMap>>
    /\ mutatorFrame

\* EntityGrid::abortMovement(actor, src, dst): the actor stopped at its current
\* location, somewhere between src and dst.
abortMovement(actor) ==
    LET current  == location[actor]
        afterSrc == freeArea(collisionMap, moving[actor].src, current,
                             getWidth(actor), getHeight(actor), ActorState(actor))
    IN  /\ Ready
        /\ moving[actor].active
        /\ collisionMap' = freeArea(afterSrc, moving[actor].dst, current,
                                    getWidth(actor), getHeight(actor), ActorState(actor))
        /\ moving' = [moving EXCEPT ![actor] = NoMove]
        /\ preAdd' = NoSnapshot
        /\ call' = Call("abortMovement", actor, Point2D(0, 0),
                        getWidth(actor), getHeight(actor), TRUE, TRUE)
        /\ UNCHANGED <<location, onMap>>
        /\ mutatorFrame

\* The record of a changeActorLocation call; the arguments of a denied call
\* are kept.
RelocationCall(actor, dst, ret) ==
    [op |-> "changeActorLocation", actor |-> actor, area |-> dst,
     width |-> getWidth(actor), height |-> getHeight(actor),
     ret |-> ret, midMove |-> FALSE]

\* Mutant of changeActorLocation: the tiles of the previous location are not
\* freed.
changeActorLocationKeepingPrevious(actor, dst) ==
    LET r == occupyArea(collisionMap, dst, getWidth(actor), getHeight(actor),
                        ActorState(actor))
    IN  /\ Ready
        /\ actor \in onMap
        /\ ~moving[actor].active
        /\ collisionMap' = r.grid
        /\ location' = IF r.ret THEN [location EXCEPT ![actor] = dst] ELSE location
        /\ preAdd' = NoSnapshot
        /\ call' = RelocationCall(actor, dst, r.ret)
        /\ UNCHANGED <<onMap, moving>>
        /\ mutatorFrame

\* EntityGrid::changeActorLocation(actor, dst): all or nothing.  When the
\* destination can be occupied the actor takes it, leaves the tiles of its
\* previous location that lie outside it, and stands at dst.
changeActorLocation(actor, dst) ==
    LET r == occupyArea(collisionMap, dst, getWidth(actor), getHeight(actor),
                        ActorState(actor))
    IN  /\ Ready
        /\ actor \in onMap
        /\ ~moving[actor].active
        /\ collisionMap' =
              IF r.ret
              THEN freeArea(r.grid, location[actor], dst,
                            getWidth(actor), getHeight(actor), ActorState(actor))
              ELSE collisionMap
        /\ location' = IF r.ret THEN [location EXCEPT ![actor] = dst] ELSE location
        /\ preAdd' = NoSnapshot
        /\ call' = RelocationCall(actor, dst, r.ret)
        /\ UNCHANGED <<onMap, moving>>
        /\ mutatorFrame

\* The steps of moveToClosestPoint: one tile-step at a time in the given
\* direction, as long as distance is left and the next step's area can be
\* occupied.  The result holds the collision map and the location reached.
RECURSIVE closestPoint(_, _, _, _, _, _)
closestPoint(grid, actor, at, xDirection, yDirection, distance) ==
    LET step == Min(MOVEMENT_TILE_SIZE, distance)
        to   == Point2D(at.x + xDirection * step, at.y + yDirection * step)
        r    == occupyArea(grid, to, getWidth(actor), getHeight(actor),
                           ActorState(actor))
    IN  IF distance <= 0 \/ ~r.ret THEN [grid |-> grid, at |-> at]
        ELSE closestPoint(freeArea(r.grid, at, to, getWidth(actor), getHeight(actor),
                                   ActorState(actor)),
                          actor, to, xDirection, yDirection, distance - step)

\* The record of a moveToClosestPoint call: the location the actor started
\* from, the direction and the distance.
PushCall(actor, xDirection, yDirection, distance) ==
    [op |-> "moveToClosestPoint", actor |-> actor, area |-> location[actor],
     width |-> getWidth(actor), height |-> getHeight(actor),
     ret |-> TRUE, midMove |-> FALSE,
     xDirection |-> xDirection, yDirection |-> yDirection, distance |-> distance]

\* Mutant of moveToClosestPoint: the actor is put at the end of the whole
\* distance when it can stand there, whatever lies on the way.
moveToFarthestPoint(actor, xDirection, yDirection, distance) ==
    LET to == Point2D(location[actor].x + xDirection * distance, location[actor].y + yDirection * distance)
        r  == occupyArea(collisionMap, to, getWidth(actor), getHeight(actor), ActorState(actor))
    IN  /\ Ready
        /\ actor \in onMap
        /\ ~moving[actor].active
        /\ collisionMap' =
              IF r.ret
              THEN freeArea(r.grid, location[actor], to,
                            getWidth(actor), getHeight(actor), ActorState(actor))
              ELSE collisionMap
        /\ location' = IF r.ret THEN [location EXCEPT ![actor] = to] ELSE location
        /\ preAdd' = NoSnapshot
        /\ call' = PushCall(actor, xDirection, yDirection, distance)
        /\ UNCHANGED <<onMap, moving>>
        /\ mutatorFrame

\* EntityGrid::moveToClosestPoint(actor, xDirection, yDirection, distance)
moveToClosestPoint(actor, xDirection, yDirection, distance) ==
    LET r == closestPoint(collisionMap, actor, location[actor],
                          xDirection, yDirection, distance)
    IN  /\ Ready
        /\ actor \in onMap
        /\ ~moving[actor].active
        /\ collisionMap' = r.grid
        /\ location' = [location EXCEPT ![actor] = r.at]
        /\ preAdd' = NoSnapshot
        /\ call' = PushCall(actor, xDirection, yDirection, distance)
        /\ UNCHANGED <<onMap, moving>>
        /\ mutatorFrame

\* The operations that resolve a movement.
ResolvingOps == {"endMovement", "abortMovement"}

\* Mutant of mismatchedMovement: the call is accepted silently and releases
\* the tiles under the actor that lie outside the given destination.
mismatchedMovementAccepted(op, actor, dst) ==
    /\ Ready
    /\ ~(moving[actor].active /\ moving[actor].dst = dst)
    /\ collisionMap' = freeArea(collisionMap, location[actor], dst,
                                getWidth(actor), getHeight(actor), ActorState(actor))
    /\ call' = Call(op, actor, dst, getWidth(actor), getHeight(actor), TRUE,
                    moving[actor].active)
    /\ UNCHANGED <<location, onMap, moving, preAdd>>
    /\ mutatorFrame

\* EntityGrid::endMovement / abortMovement called for an actor that has no
\* unresolved movement to dst: the pairing is mismatched, which is a
\* programming error; the program is aborted and the grid is left as it is.
mismatchedMovement(op, actor, dst) ==
    /\ Ready
    /\ ~(moving[actor].active /\ moving[actor].dst = dst)
    /\ aborted' = TRUE
    /\ call' = Call(op, actor, dst, getWidth(actor), getHeight(actor), FALSE,
                    moving[actor].active)
    /\ result' = NoResult
    /\ UNCHANGED <<collisionMap, location, onMap, moving, preAdd>>
    /\ UNCHANGED <<mapData, distanceMatrix, successorMatrix>>
    /\ UNCHANGED <<regionVars, dialogueVars>>

\* The directions of moveToClosestPoint and the distances, in pixels.
Directions == {<<1, 0>>, <<-1, 0>>, <<0, 1>>, <<0, -1>>}

MoveDistances == {MOVEMENT_TILE_SIZE, 2 * MOVEMENT_TILE_SIZE}

Next ==
    \/ \E area \in AlignedPoints, size \in ObstacleSizes :
          addObstacle(area, size[1], size[2])
    \/ \E actor \in Actors, area \in AlignedPoints : addActor(actor, area)
    \/ \E actor \in Actors : removeActor(actor)
    \/ \E actor \in Actors, dst \in AlignedPoints : beginMovement(actor, dst)
    \/ \E actor \in Actors : ActorStep(actor)
    \/ \E actor \in Actors : endMovement(actor)
    \/ \E actor \in Actors : abortMovement(actor)

Spec == Init /\ [][Next]_vars

(* ------------------------------------------ maps, queries and fail-fast *)

\* The maps given to setMapData: an empty map, a map with a blocked column,
\* and a map with two blocked tiles that touch at a corner.
Maps ==
    {Map({}),
     Map({Point2D(1, y) : y \in 0..(GridH - 1)}),
     Map({Point2D(1, 0), Point2D(0, 1)})}

\* The maps of the callers that move actors: an empty map, and a map whose
\* geometry blocks the last tile of the first row.
MoveMaps == {Map({}), Map({Point2D(GridW - 1, 0)})}

\* The side, in tiles, of the square map of the detour example.
ExampleSide == 5

\* The map of the detour example: only the tile in the middle is blocked.
ExampleMap ==
    MapOfSize(ExampleSide, ExampleSide,
              {Point2D(ExampleSide \div 2, ExampleSide \div 2)})

\* A map one tile wider and one tile higher than the maps above whose second
\* column is blocked: no walk joins the first column and the rest.
WalledMap == MapOfSize(GridW + 1, GridH + 1, {Point2D(1, y) : y \in 0..GridH})

\* The maps on which the ideal paths are examined: every map one tile wider
\* and one tile higher than the maps above with at most MaxObstacleTiles + 1
\* blocked tiles, the walled map and the map of the example.
StaticMaps ==
    {MapOfSize(GridW + 1, GridH + 1, blocked) :
        blocked \in {b \in SUBSET [x : 0..GridW, y : 0..GridH] :
                        Cardinality(b) <= MaxObstacleTiles + 1}}
    \cup {ExampleMap, WalledMap}

\* Pathfinder::initialize(grid, ...) for the collision map of every map of the
\* model: the matrices that initRoyFloydWarshallMatrices computes on it.
initialize ==
    [map \in Maps \cup MoveMaps \cup StaticMaps |->
        initRoyFloydWarshallMatrices(staticGrid(map))]

\* The pixel locations of the corners of all tiles.
PathPoints ==
    {Point2D(MOVEMENT_TILE_SIZE * t.x, MOVEMENT_TILE_SIZE * t.y) : t \in Tiles}

\* The pairs of source and destination given to the path queries: from every
\* tile of the first column to every tile of the last column, from the second
\* tile of the first row to the tile below the first, from the first tile to
\* itself, and from the corner of the first tile to a pixel inside it.
PathQueries ==
    {<<src, dst>> \in PathPoints \X PathPoints :
        src.x = 0 /\ dst.x = (GridW - 1) * MOVEMENT_TILE_SIZE}
    \cup {<<Point2D(MOVEMENT_TILE_SIZE, 0), Point2D(0, MOVEMENT_TILE_SIZE)>>,
          <<Point2D(0, 0), Point2D(0, 0)>>,
          <<Point2D(0, 0), Point2D(MOVEMENT_TILE_SIZE - 1, MOVEMENT_TILE_SIZE - 1)>>}

\* The mutators and queries that need a map.
GridOps ==
    {"isAreaFree", "addObstacle", "addActor", "beginMovement",
     "findBestPath", "findReroutedPath"}

\* EntityGrid::EntityGrid: no map, no collision map, no matrices.
PathInit ==
    /\ mapData = NoMap
    /\ collisionMap = NoGrid
    /\ distanceMatrix = NoGrid
    /\ successorMatrix = NoGrid
    /\ location = [a \in Actors |-> Point2D(0, 0)]
    /\ onMap = {}
    /\ moving = [a \in Actors |-> NoMove]
    /\ preAdd = NoSnapshot
    /\ call = Call("EntityGrid", NULL, Point2D(0, 0), 0, 0, TRUE, FALSE)
    /\ aborted = FALSE
    /\ result = NoResult
    /\ RegionUnloaded
    /\ DialogueConstructed

\* Mutant of setMapData: the pathfinder is initialized for the first map only.
setMapDataOnceInitialized(newMapData) ==
    /\ ~aborted
    /\ mapData' = newMapData
    /\ collisionMap' = staticGrid(newMapData)
    /\ distanceMatrix' = IF mapData.loaded THEN distanceMatrix
                          ELSE initialize[newMapData].distance
    /\ successorMatrix' = IF mapData.loaded THEN successorMatrix
                           ELSE initialize[newMapData].successor
    /\ location' = [a \in Actors |-> Point2D(0, 0)]
    /\ onMap' = {}
    /\ moving' = [a \in Actors |-> NoMove]
    /\ preAdd' = NoSnapshot
    /\ call' = Call("setMapData", NULL, Point2D(0, 0), 0, 0, TRUE, FALSE)
    /\ result' = NoResult
    /\ UNCHANGED aborted
    /\ UNCHANGED <<regionVars, dialogueVars>>

\* EntityGrid::setMapData(newMapData): the collision map is rebuilt from the
\* map's static geometry and the pathfinder is initialized on it.  The actors
\* of the previous map are gone.
setMapData(newMapData) ==
    /\ ~aborted
    /\ mapData' = newMapData
    /\ collisionMap' = staticGrid(newMapData)
    /\ distanceMatrix' = initialize[newMapData].distance
    /\ successorMatrix' = initialize[newMapData].successor
    /\ location' = [a \in Actors |-> Point2D(0, 0)]
    /\ onMap' = {}
    /\ moving' = [a \in Actors |-> NoMove]
    /\ preAdd' = NoSnapshot
    /\ call' = Call("setMapData", NULL, Point2D(0, 0), 0, 0, TRUE, FALSE)
    /\ result' = NoResult
    /\ UNCHANGED aborted
    /\ UNCHANGED <<regionVars, dialogueVars>>

\* Mutant of uninitializedCall: the call is answered with "no" and the program
\* goes on.
uninitializedCallAnswered(op) ==
    /\ ~mapData.loaded
    /\ ~aborted
    /\ call' = Call(op, NULL, Point2D(0, 0), 0, 0, FALSE, FALSE)
    /\ result' = Result(op, Point2D(0, 0), Point2D(0, 0), 0, 0, <<>>, FALSE)
    /\ UNCHANGED <<collisionMap, location, onMap, moving, preAdd>>
    /\ UNCHANGED <<mapData, distanceMatrix, successorMatrix, aborted>>
    /\ UNCHANGED <<regionVars, dialogueVars>>

\* A call that needs a map, made before any map is set: a programming error,
\* on which the program is aborted.
uninitializedCall(op) ==
    /\ ~mapData.loaded
    /\ ~aborted
    /\ aborted' = TRUE
    /\ call' = Call(op, NULL, Point2D(0, 0), 0, 0, FALSE, FALSE)
    /\ result' = NoResult
    /\ UNCHANGED <<collisionMap, location, onMap, moving, preAdd>>
    /\ UNCHANGED <<mapData, distanceMatrix, successorMatrix>>
    /\ UNCHANGED <<regionVars, dialogueVars>>

\* What a query leaves alone: everything but the record of its result.
queryFrame ==
    UNCHANGED <<collisionMap, location, onMap, moving, preAdd, call,
                mapData, distanceMatrix, successorMatrix, aborted,
                regionVars, dialogueVars>>

\* EntityGrid::isAreaFree(area, width, height), as a call.
isAreaFreeCall(area, width, height) ==
    /\ Ready
    /\ result' = Result("isAreaFree", area, area, width, height, <<>>,
                        isAreaFree(collisionMap, area, width, height))
    /\ queryFrame

\* Mutant of findBestPathCall: the ideal path is computed on the live
\* collision map.
findBestPathCallOnLiveGrid(src, dst) ==
    /\ Ready
    /\ result' = Result("findBestPath", src, dst, 0, 0,
                        findBestPath(initRoyFloydWarshallMatrices(collisionMap).successor,
                                     src, dst, mapData.width),
                        NULL)
    /\ queryFrame

\* EntityGrid::findBestPath(src, dst), as a call.
findBestPathCall(src, dst) ==
    /\ Ready
    /\ result' = Result("findBestPath", src, dst, 0, 0,
                        findBestPath(successorMatrix, src, dst, mapData.width), NULL)
    /\ queryFrame

\* EntityGrid::findReroutedPath(src, dst, width, height), as a call: the
\* pathfinder is given the live collision map.
findReroutedPathCall(src, dst, width, height) ==
    /\ Ready
    /\ result' = Result("findReroutedPath", src, dst, width, height,
                        findReroutedPath(collisionMap, distanceMatrix, successorMatrix,
                                         src, dst, width, height),
                        NULL)
    /\ queryFrame

\* Mutant of tileInFront: the tile next to the tile the actor is anchored at,
\* whatever the size of the actor.
tileInFrontOfAnchor(actor, at, direction) ==
    Point2D(at.x \div MOVEMENT_TILE_SIZE + direction[1],
            at.y \div MOVEMENT_TILE_SIZE + direction[2])

\* The tile immediately in front of an actor that stands at a location and
\* faces a direction: the tile next to the one it is anchored at, past its
\* footprint when it faces right or down.
tileInFront(actor, at, direction) ==
    Point2D((at.x + (IF direction[1] = 1 THEN getWidth(actor) ELSE direction[1] * MOVEMENT_TILE_SIZE)) \div MOVEMENT_TILE_SIZE,
            (at.y + (IF direction[2] = 1 THEN getHeight(actor) ELSE direction[2] * MOVEMENT_TILE_SIZE)) \div MOVEMENT_TILE_SIZE)

\* The actor, if any, on the tile in front of the given actor.
adjacentActor(grid, actor, at, direction) ==
    LET t == tileInFront(actor, at, direction)
    IN  IF t \in Tiles /\ grid[t].entityType = ACTOR THEN grid[t].entity ELSE NULL

\* The record of a getAdjacentActor query: the actor, its location, the
\* corner of the tile in front of it and the actor returned.
AdjacencyResult(actor, direction, value) ==
    [op |-> "getAdjacentActor", actor |-> actor, src |-> location[actor],
     dst |-> Point2D(MOVEMENT_TILE_SIZE * tileInFront(actor, location[actor], direction).x,
                     MOVEMENT_TILE_SIZE * tileInFront(actor, location[actor], direction).y),
     width |-> 0, height |-> 0, path |-> <<>>, value |-> value]

\* EntityGrid::getAdjacentActor(actor); the direction is the one the actor
\* faces.
getAdjacentActor(actor, direction) ==
    /\ Ready
    /\ actor \in onMap
    /\ result' = AdjacencyResult(actor, direction,
                                 adjacentActor(collisionMap, actor, location[actor], direction))
    /\ queryFrame

\* Mutant of draw: rendering resets the collision map to the map's geometry.
drawClearing ==
    /\ Ready
    /\ result' = Result("draw", Point2D(0, 0), Point2D(0, 0), 0, 0, <<>>, NULL)
    /\ collisionMap' = staticGrid(mapData)
    /\ UNCHANGED <<location, onMap, moving, preAdd, call,
                   mapData, distanceMatrix, successorMatrix, aborted,
                   regionVars, dialogueVars>>

\* EntityGrid::draw: renders the collision map.
draw ==
    /\ Ready
    /\ result' = Result("draw", Point2D(0, 0), Point2D(0, 0), 0, 0, <<>>, NULL)
    /\ queryFrame

\* The footprints the path queries are asked for, in pixels.
PathSizes == ObstacleSizes

\* The caller holds no answer of a query.
NoAnswerHeld == result = NoResult

\* The grid from its construction on: maps are set, obstacles and actors are
\* placed and removed, and after each of these changes the caller makes at
\* most one query.
PathNext ==
    \/ \E newMapData \in Maps : setMapData(newMapData)
    \/ \E op \in GridOps : uninitializedCall(op)
    \/ \E area \in PathPoints, size \in ObstacleSizes :
          addObstacle(area, size[1], size[2])
    \/ \E actor \in Actors, area \in PathPoints : addActor(actor, area)
    \/ \E actor \in Actors : removeActor(actor)
    \/ \E area \in AlignedPoints, size \in ObstacleSizes :
          NoAnswerHeld /\ isAreaFreeCall(area, size[1], size[2])
    \/ \E q \in PathQueries : NoAnswerHeld /\ findBestPathCall(q[1], q[2])
    \/ \E q \in PathQueries, size \in PathSizes :
          NoAnswerHeld /\ findReroutedPathCall(q[1], q[2], size[1], size[2])
    \/ \E actor \in Actors, direction \in Directions :
          NoAnswerHeld /\ getAdjacentActor(actor, direction)
    \/ NoAnswerHeld /\ draw

PathSpec == PathInit /\ [][PathNext]_vars

\* After setMapData on one of these maps.
MoveInit ==
    /\ mapData \in MoveMaps
    /\ collisionMap = staticGrid(mapData)
    /\ location = [a \in Actors |-> Point2D(0, 0)]
    /\ onMap = {}
    /\ moving = [a \in Actors |-> NoMove]
    /\ preAdd = NoSnapshot
    /\ call = Call("setMapData", NULL, Point2D(0, 0), 0, 0, TRUE, FALSE)
    /\ distanceMatrix = initialize[mapData].distance
    /\ successorMatrix = initialize[mapData].successor
    /\ aborted = FALSE
    /\ result = NoResult
    /\ RegionUnloaded
    /\ DialogueConstructed

\* The grid with callers that place, remove, move, relocate and push actors
\* and that may pair the movement calls wrongly.
MoveNext ==
    \/ \E actor \in Actors, area \in AlignedPoints : addActor(actor, area)
    \/ \E actor \in Actors : removeActor(actor)
    \/ \E actor \in Actors, dst \in AlignedPoints : beginMovement(actor, dst)
    \/ \E actor \in Actors : ActorStep(actor)
    \/ \E actor \in Actors : endMovement(actor)
    \/ \E actor \in Actors : abortMovement(actor)
    \/ \E actor \in Actors, dst \in AlignedPoints : changeActorLocation(actor, dst)
    \/ \E actor \in Actors, dir \in Directions, distance \in MoveDistances :
          moveToClosestPoint(actor, dir[1], dir[2], distance)
    \/ \E op \in ResolvingOps, actor \in Actors, dst \in AlignedPoints :
          mismatchedMovement(op, actor, dst)

MoveSpec == MoveInit /\ [][MoveNext]_vars

\* The pixel locations of the corners of the tiles of a map.
pointsOfMap(map) ==
    {Point2D(MOVEMENT_TILE_SIZE * t.x, MOVEMENT_TILE_SIZE * t.y) : t \in tilesOfMap(map)}

\* The grid from its construction on, with callers that set maps of several
\* sizes and ask for the ideal path between any two tiles of the map, one
\* question at a time.
StaticNext ==
    \/ \E newMapData \in StaticMaps : NoAnswerHeld /\ setMapData(newMapData)
    \/ \E src \in pointsOfMap(mapData), dst \in pointsOfMap(mapData) :
          NoAnswerHeld /\ findBestPathCall(src, dst)

StaticSpec == PathInit /\ [][StaticNext]_vars

\* The actor whose movements the callers below make.
Walker == "a1"

\* After setMapData on one of the maps.
IdealInit ==
    /\ mapData \in Maps
    /\ collisionMap = staticGrid(mapData)
    /\ location = [a \in Actors |-> Point2D(0, 0)]
    /\ onMap = {}
    /\ moving = [a \in Actors |-> NoMove]
    /\ preAdd = NoSnapshot
    /\ call = Call("setMapData", NULL, Point2D(0, 0), 0, 0, TRUE, FALSE)
    /\ distanceMatrix = initialize[mapData].distance
    /\ successorMatrix = initialize[mapData].successor
    /\ aborted = FALSE
    /\ result = NoResult
    /\ RegionUnloaded
    /\ DialogueConstructed

\* The grid with callers that set maps, place obstacles, place, move and
\* remove an actor, and ask for the ideal path after any of these changes.
IdealNext ==
    \/ \E newMapData \in Maps : setMapData(newMapData)
    \/ \E area \in PathPoints, size \in ObstacleSizes :
          addObstacle(area, size[1], size[2])
    \/ \E area \in PathPoints : addActor(Walker, area)
    \/ removeActor(Walker)
    \/ \E dst \in PathPoints : beginMovement(Walker, dst)
    \/ ActorStep(Walker)
    \/ endMovement(Walker)
    \/ abortMovement(Walker)
    \/ \E q \in PathQueries : NoAnswerHeld /\ findBestPathCall(q[1], q[2])

IdealSpec == IdealInit /\ [][IdealNext]_vars

(* ------------------------------------------- vocabulary of the properties *)

\* The pixel lies inside the map.
PixelInMap(p) ==
    /\ 0 <= p.x /\ p.x < mapPixelWidth
    /\ 0 <= p.y /\ p.y < mapPixelHeight

\* The rectangle lies inside the map: its first and its last pixel do.
InsideMap(area, width, height) ==
    /\ PixelInMap(area)
    /\ PixelInMap(Point2D(area.x + width - 1, area.y + height - 1))

\* The tiles of the map that hold at least one pixel of the rectangle: the
\* tile columns of its pixel columns by the tile rows of its pixel rows.
Covered(area, width, height) ==
    LET cols == {px \div MOVEMENT_TILE_SIZE :
                    px \in Max(area.x, 0)..Min(area.x + width - 1, mapPixelWidth - 1)}
        rows == {py \div MOVEMENT_TILE_SIZE :
                    py \in Max(area.y, 0)..Min(area.y + height - 1, mapPixelHeight - 1)}
    IN  {Point2D(tx, ty) : tx \in cols, ty \in rows}

\* The footprint of an actor whose top-left corner is at a pixel location.
FootprintAt(actor, at) == Covered(at, getWidth(actor), getHeight(actor))

\* The footprint of an actor where it stands; an actor that is not on the map
\* has none.
CurrentFootprint(actor) ==
    IF actor \in onMap THEN FootprintAt(actor, location[actor]) ELSE {}

\* Every movement that was begun has been resolved.
NoMovementPending == \A a \in Actors : ~moving[a].active

\* No tile is attributed to two actors.
AtMostOneActorPerTile ==
    \A t \in Tiles : Cardinality({a \in Actors : collisionMap[t] = ActorState(a)}) <= 1

(* ---------------------------------------------------------------- claims *)

\* The calls that reserve an area.
ReservingOps == {"addObstacle", "addActor", "beginMovement"}

\* The area is inside the map and none of its tiles is occupied.
Unoccupied(grid, area, width, height) ==
    /\ InsideMap(area, width, height)
    /\ \A t \in Covered(area, width, height) : grid[t] = FreeState

\* The area is inside the map and none of its tiles is occupied by an obstacle
\* or by an actor other than the given one.
UnoccupiedByOthers(grid, actor, area, width, height) ==
    /\ InsideMap(area, width, height)
    /\ \A t \in Covered(area, width, height) :
          grid[t] = FreeState \/ (actor # NULL /\ grid[t] = ActorState(actor))

\* C1 as stated: whenever a tile of the requested area is occupied, or the
\* area is out of bounds, addObstacle, addActor and beginMovement return false
\* and leave the collision map unchanged.  (A call that returned true was
\* therefore made on an area with no occupied tile.)
C1_AtomicityAsStated ==
    [][call'.op \in ReservingOps =>
          /\ call'.ret =>
                Unoccupied(collisionMap, call'.area, call'.width, call'.height)
          /\ ~call'.ret => collisionMap' = collisionMap]_vars

\* C1 amended: whenever a tile of the requested area is occupied by an obstacle
\* or by an actor other than the one the call is made for, or the area is out
\* of bounds, addObstacle, addActor and beginMovement return false, and a call
\* that returns false leaves every tile of the collision map unchanged.
C1_Atomicity ==
    [][call'.op \in ReservingOps =>
          /\ call'.ret =>
                UnoccupiedByOthers(collisionMap, call'.actor,
                                   call'.area, call'.width, call'.height)
          /\ ~call'.ret => collisionMap' = collisionMap]_vars

\* C1 witness: a reserving call was denied on a map that holds an occupant.
C1_Witness ==
    /\ call.op \in ReservingOps
    /\ ~call.ret
    /\ \E t \in Tiles : collisionMap[t] # FreeState

C4_EndMovementAsStated ==
    [][call'.op = "endMovement" =>
          LET X == call'.actor IN
          /\ \A t \in FootprintAt(X, moving[X].src) : collisionMap'[t] = FreeState
          /\ TilesOf(collisionMap', X) = FootprintAt(X, moving[X].dst)]_vars

\* C4 amended: after endMovement(X, src, dst) no tile of the src footprint that
\* lies outside the dst footprint is attributed to X any more, the tiles of it
\* that X held are free, and the tiles attributed to X are exactly the dst
\* footprint.
C4_EndMovement ==
    [][call'.op = "endMovement" =>
          LET X == call'.actor IN
          /\ \A t \in FootprintAt(X, moving[X].src) \ FootprintAt(X, moving[X].dst) :
                /\ collisionMap'[t] # ActorState(X)
                /\ collisionMap[t] = ActorState(X) => collisionMap'[t] = FreeState
          /\ TilesOf(collisionMap', X) = FootprintAt(X, moving[X].dst)]_vars

\* C4 witness: a movement was ended whose src and dst footprints share a tile
\* although src and dst differ.
C4_Witness ==
    /\ call.op = "endMovement"
    /\ call.area # location[call.actor]
    /\ FootprintAt(call.actor, call.area)
          \cap FootprintAt(call.actor, location[call.actor]) # {}

C6_BeginMovement ==
    /\ \A a \in Actors, dst \in AlignedPoints :
          (a \in onMap /\ ~moving[a].active) =>
              LET r == beginMovementResult(collisionMap, a, dst) IN
              /\ r.ret <=> UnoccupiedByOthers(collisionMap, a, dst,
                                              getWidth(a), getHeight(a))
              /\ r.ret => \A t \in FootprintAt(a, dst) : r.grid[t] = ActorState(a)
    /\ (call.op = "beginMovement" /\ call.ret) =>
          \A t \in FootprintAt(call.actor, call.area) :
              collisionMap[t] = ActorState(call.actor)

\* C6 witness: a movement was granted into a destination that shares a tile
\* with the footprint the actor stands on.
C6_Witness ==
    /\ call.op = "beginMovement"
    /\ call.ret
    /\ FootprintAt(call.actor, call.area)
          \cap FootprintAt(call.actor, location[call.actor]) # {}
    /\ call.area # location[call.actor]

\* The state a successful addObstacle or addActor writes.
WrittenState(c) == IF c.op = "addObstacle" THEN ObstacleState ELSE ActorState(c.actor)

\* C7: a successful addObstacle or addActor marks every tile the requested
\* footprint covers as occupied by that obstacle or actor and leaves every tile
\* outside the footprint unchanged.
C7_WholeFootprint ==
    [][(call'.op \in {"addObstacle", "addActor"} /\ call'.ret) =>
          \A t \in Tiles :
              collisionMap'[t] =
                  IF t \in Covered(call'.area, call'.width, call'.height)
                  THEN WrittenState(call') ELSE collisionMap[t]]_vars

\* C7 witness: an area of two tiles was occupied by a successful call.
C7_Witness ==
    /\ call.op \in {"addObstacle", "addActor"}
    /\ call.ret
    /\ Cardinality(Covered(call.area, call.width, call.height)) = 2
    /\ \A t \in Covered(call.area, call.width, call.height) :
          collisionMap[t] = WrittenState(call)

\* The areas isAreaFree is asked about: the tile-aligned locations, the
\* locations of the actors and a location off the tile grid, each with the
\* sizes of an obstacle and a size that is no multiple of the tile size.
QueryAreas ==
    AlignedPoints \cup {location[a] : a \in Actors} \cup {Point2D(1, 1)}

QuerySizes ==
    ObstacleSizes \cup {<<MOVEMENT_TILE_SIZE + 1, 1>>}

\* Every tile of the actor's footprint where it stands is attributed to it.
OccupiesItsFootprint(grid, actor) ==
    /\ actor \in onMap
    /\ \A t \in FootprintAt(actor, location[actor]) : grid[t] = ActorState(actor)

\* C8: isAreaFree is true iff the pixel rectangle is inside the map and every
\* tile it covers is unoccupied; it is false on the footprint an actor
\* occupies, and true on that footprint in the collision map that removeActor
\* of that actor leaves.
C8_IsAreaFree ==
    /\ \A area \in QueryAreas, size \in QuerySizes :
          isAreaFree(collisionMap, area, size[1], size[2])
              <=> Unoccupied(collisionMap, area, size[1], size[2])
    /\ \A a \in Actors :
          OccupiesItsFootprint(collisionMap, a) =>
              /\ ~isAreaFree(collisionMap, location[a], getWidth(a), getHeight(a))
              /\ isAreaFree(freeActorTiles(collisionMap, a), location[a],
                            getWidth(a), getHeight(a))

\* C8 witness: an actor was removed while the other actor occupies a
\* footprint of two tiles.
C8_Witness ==
    /\ call.op = "removeActor"
    /\ \E a \in Actors :
          /\ OccupiesItsFootprint(collisionMap, a)
          /\ Cardinality(FootprintAt(a, location[a])) = 2

\* C9: when addActor(X, A) is followed by removeActor(X), every tile of the
\* collision map is as it was before the addActor, whether the addActor had
\* succeeded or had been denied.
C9_AddRemoveRoundTrip ==
    (call.op = "removeActor" /\ preAdd.actor = call.actor) =>
        collisionMap = preAdd.grid

\* C9 witness: addActor then removeActor of the same actor on a map that holds
\* other occupants.
C9_Witness ==
    /\ call.op = "removeActor"
    /\ preAdd.actor = call.actor
    /\ \E t \in Tiles : collisionMap[t].entityType = OBSTACLE
    /\ \E t \in Tiles : collisionMap[t].entityType = ACTOR

OneKindPerTile(grid) ==
    \A t \in Tiles : grid[t] \in {FreeState, ObstacleState} \cup {ActorState(a) : a \in Actors}

\* The operations made on an actor that release tiles.
ActorOps ==
    {"removeActor", "endMovement", "abortMovement", "changeActorLocation",
     "moveToClosestPoint"}

\* C11: in every reachable state each tile is of exactly one of the kinds
\* free, obstacle-occupied and actor-occupied, and removeActor, endMovement,
\* abortMovement, changeActorLocation and moveToClosestPoint on an actor free
\* only tiles that were marked as occupied by that actor and leave every tile
\* occupied by an obstacle or by a different actor as it is.
C11_OnlyOwnTiles ==
    /\ OneKindPerTile(collisionMap)
    /\ [][/\ OneKindPerTile(collisionMap')
          /\ call'.op \in ActorOps =>
                \A t \in Tiles :
                    /\ (collisionMap'[t] # collisionMap[t] /\ collisionMap'[t] = FreeState)
                          => (call'.ret /\ collisionMap[t] = ActorState(call'.actor))
                    /\ (collisionMap[t] # FreeState
                            /\ ~(call'.ret /\ collisionMap[t] = ActorState(call'.actor)))
                          => collisionMap'[t] = collisionMap[t]]_vars

\* C11 witness: moveToClosestPoint has moved an actor on a map that holds a
\* tile of another occupant, an obstacle or the other actor.
C11_Witness ==
    /\ call.op = "moveToClosestPoint"
    /\ location[call.actor] # call.area
    /\ \E t \in Tiles :
          collisionMap[t] # FreeState /\ collisionMap[t] # ActorState(call.actor)

QueryOps ==
    {"isAreaFree", "getAdjacentActor", "findBestPath", "findReroutedPath", "draw"}

touching(a, b) ==
    /\ a # b
    /\ Abs(a.x - b.x) <= 1
    /\ Abs(a.y - b.y) <= 1

\* The non-blocked tiles that can be reached from the given ones by going from
\* a tile to a non-blocked tile that touches it.
RECURSIVE reachable(_, _)
reachable(map, seen) ==
    LET more == {t \in Tiles \ map.blocked : \E s \in seen : touching(s, t)}
    IN  IF more \subseteq seen THEN seen ELSE reachable(map, seen \cup more)

\* The tile a pixel location lies in.
tileOf(p) == tileNumToCoords(pixelsToTileNum(p, GridW), GridW)

\* The destination is connected to the source, a non-blocked tile, through
\* non-blocked tiles.
connected(map, src, dst) == tileOf(dst) \in reachable(map, {tileOf(src)})

\* The operations that return a path.
PathOps == {"findBestPath", "findReroutedPath"}

FreeForMover(grid, src, t) ==
    \/ grid[t] = FreeState
    \/ (grid[tileOf(src)].entityType = ACTOR /\ grid[t] = grid[tileOf(src)])

C17_IdealPathIgnoresOccupants ==
    [][/\ result'.op = "findBestPath" =>
             result'.path =
                 findBestPath(initialize[mapData'].successor, result'.src, result'.dst,
                              mapData'.width)
       /\ mapData' = mapData =>
             /\ distanceMatrix' = distanceMatrix
             /\ successorMatrix' = successorMatrix]_vars

\* C17 witness: after a movement was ended or aborted, findBestPath returned
\* a path whose first waypoint is a tile that an added obstacle or the actor
\* holds.
C17_Witness ==
    /\ result.op = "findBestPath"
    /\ result.path # <<>>
    /\ call.op \in ResolvingOps
    /\ collisionMap[tileOf(result.path[1])] # FreeState

TileUnder(p) == Point2D(p.x \div MOVEMENT_TILE_SIZE, p.y \div MOVEMENT_TILE_SIZE)

\* The pixel location of the corner of a tile.
CornerOf(tx, ty) == Point2D(tx * MOVEMENT_TILE_SIZE, ty * MOVEMENT_TILE_SIZE)

\* findBestPath has answered the question of the example: from the first to
\* the last tile of the middle row of the example map.
ExampleAnswered ==
    /\ mapData = ExampleMap
    /\ result.op = "findBestPath"
    /\ result.src = CornerOf(0, ExampleSide \div 2)
    /\ result.dst = CornerOf(ExampleSide - 1, ExampleSide \div 2)

\* The path of the answer ends at the destination, does not contain the
\* blocked tile, passes through the row above or the row below the blocked
\* tile, and costs two orthogonal and two diagonal steps.
ExampleDetour ==
    /\ result.path # <<>>
    /\ result.path[Len(result.path)] = result.dst
    /\ \A k \in 1..Len(result.path) : TileUnder(result.path[k]) \notin mapData.blocked
    /\ \E k \in 1..Len(result.path) :
          TileUnder(result.path[k]).y \in {ExampleSide \div 2 - 1, ExampleSide \div 2 + 1}
    /\ pathCost(result.src, result.path) = 2 * ORTHOGONAL_COST + 2 * ROOT_2

IsRoute(map, src, dst, path) ==
    /\ path # <<>>
    /\ TileUnder(path[Len(path)]) = TileUnder(dst)
    /\ \A k \in 1..Len(path) :
          /\ TileUnder(path[k]) \notin map.blocked
          /\ touching(TileUnder(IF k = 1 THEN src ELSE path[k - 1]), TileUnder(path[k]))

\* C22: findBestPath and findReroutedPath return the empty path whenever src
\* and dst lie in the same tile, and a path that is not empty is returned only
\* for a src and a dst in different tiles, and is a route from the one to the
\* other.
C22_EmptyForSameTile ==
    result.op \in PathOps =>
        /\ TileUnder(result.src) = TileUnder(result.dst) => result.path = <<>>
        /\ result.path # <<>> =>
              /\ TileUnder(result.src) # TileUnder(result.dst)
              /\ IsRoute(mapData, result.src, result.dst, result.path)

\* C22 witness: findReroutedPath returned the empty path for a src and a dst
\* that are different pixels of one tile, on a map on which an actor stands.
C22_Witness ==
    /\ result.op = "findReroutedPath"
    /\ result.src # result.dst
    /\ TileUnder(result.src) = TileUnder(result.dst)
    /\ result.path = <<>>
    /\ onMap # {}

\* The outcome of a granted changeActorLocation: the actor holds exactly the
\* destination footprint, stands at dst, the tiles it held outside the
\* destination are free and no other tile has changed.
Relocated(actor, dst) ==
    LET previous == TilesOf(collisionMap, actor)
        next     == FootprintAt(actor, dst)
    IN  /\ TilesOf(collisionMap', actor) = next
        /\ location'[actor] = dst
        /\ \A t \in previous \ next : collisionMap'[t] = FreeState
        /\ \A t \in Tiles \ (previous \cup next) : collisionMap'[t] = collisionMap[t]

\* changeActorLocation is granted exactly when the destination footprint is
\* inside the map and holds no obstacle and no other actor.
GrantedWhenAvailable ==
    call'.ret <=> UnoccupiedByOthers(collisionMap, call'.actor, call'.area, call'.width, call'.height)

walkStep(a, b) == IF a.x = b.x \/ a.y = b.y THEN ORTHOGONAL_COST ELSE ROOT_2

\* The least number of a non-empty set of numbers.
LowestOf(costs) == CHOOSE m \in costs : \A n \in costs : m <= n

\* The costs of the cheapest walks from a tile to every non-blocked tile,
\* given the costs of the cheapest walks of fewer steps: a walk goes from a
\* non-blocked tile to a non-blocked tile that touches it.
RECURSIVE cheapestWalks(_)
cheapestWalks(cost) ==
    LET longer == [t \in DOMAIN cost |->
                     LowestOf({cost[t]} \cup {cost[k] + walkStep(k, t) :
                                 k \in {n \in DOMAIN cost : touching(n, t) /\ cost[n] < INFINITY}})]
    IN  IF longer = cost THEN cost ELSE cheapestWalks(longer)

\* The cost of the cheapest walk between two tiles of a map, infinite when a
\* tile of the two is blocked or no walk joins them.
cheapestWalk(map, a, b) ==
    IF a \in map.blocked \/ b \in map.blocked THEN INFINITY
    ELSE cheapestWalks([t \in tilesOfMap(map) \ map.blocked |-> IF t = a THEN 0 ELSE INFINITY])[b]

\* C24: after initialization the entry of the distance matrix for the tiles
\* of src and dst is the least summed cost of a walk from the one to the
\* other through non-blocked tiles that touch, 1 for an orthogonal step and
\* the square root of 2 for a diagonal one, and the infinite cost when one of
\* the two is blocked or no such walk exists.
C24_DistanceIsCheapestWalk ==
    result.op = "findBestPath" =>
        distanceMatrix[pixelsToTileNum(result.src, mapData.width)][pixelsToTileNum(result.dst, mapData.width)]
            = cheapestWalk(mapData, TileUnder(result.src), TileUnder(result.dst))

\* C24 witness: a query between two tiles that do not touch, on a map with a
\* blocked tile, with a finite distance that is not a whole number of
\* orthogonal steps.
C24_Witness ==
    /\ result.op = "findBestPath"
    /\ mapData.blocked # {}
    /\ ~touching(TileUnder(result.src), TileUnder(result.dst))
    /\ TileUnder(result.src) # TileUnder(result.dst)
    /\ LET d == distanceMatrix[pixelsToTileNum(result.src, mapData.width)][pixelsToTileNum(result.dst, mapData.width)]
       IN  d < INFINITY /\ d % ORTHOGONAL_COST # 0

\* The entries of the two matrices for the tiles of the query that was
\* answered.
QueriedDistance ==
    distanceMatrix[pixelsToTileNum(result.src, mapData.width)][pixelsToTileNum(result.dst, mapData.width)]

QueriedSuccessor ==
    successorMatrix[pixelsToTileNum(result.src, mapData.width)][pixelsToTileNum(result.dst, mapData.width)]

C26_WalkFollowsDistance ==
    result.op = "findBestPath" =>
        /\ Len(result.path) < Cardinality(tilesOfMap(mapData))
        /\ \A k \in 1..Len(result.path) :
              /\ TileUnder(result.path[k]) # TileUnder(result.src)
              /\ \A n \in 1..Len(result.path) :
                    TileUnder(result.path[k]) = TileUnder(result.path[n]) => k = n
        /\ QueriedDistance = INFINITY => result.path = <<>>
        /\ (QueriedDistance < INFINITY /\ TileUnder(result.src) # TileUnder(result.dst)) =>
              /\ IsRoute(mapData, result.src, result.dst, result.path)
              /\ pathCost(result.src, result.path) = QueriedDistance

\* C26 witness: a walk of three lookups or more with a diagonal step, on a
\* map with a blocked tile.
C26_Witness ==
    /\ result.op = "findBestPath"
    /\ mapData.blocked # {}
    /\ Len(result.path) >= 3
    /\ pathCost(result.src, result.path) % ORTHOGONAL_COST # 0

\* The step between two tiles is diagonal and the two tiles that touch both
\* at a side hold obstacles.
Squeezes(grid, a, b) ==
    /\ a.x # b.x
    /\ a.y # b.y
    /\ grid[Point2D(a.x, b.y)].entityType = OBSTACLE
    /\ grid[Point2D(b.x, a.y)].entityType = OBSTACLE

SearchedPath ==
    findAStarPath(collisionMap, distanceMatrix, result.src, result.dst, result.width, result.height)

\* The search of findReroutedPath, taken alone, never squeezes: the step comes
\* from the straight-line shortcut.
C27_SearchNeverSqueezes ==
    result.op = "findReroutedPath" =>
        \A k \in 1..Len(SearchedPath) :
            ~Squeezes(collisionMap, TileUnder(IF k = 1 THEN result.src ELSE SearchedPath[k - 1]),
                      TileUnder(SearchedPath[k]))

\* The ideal path of the query that was answered, and whether
\* findReroutedPath returns it: it is not empty and the footprint is
\* unobstructed at every waypoint.
IdealPath == findRFWPath(successorMatrix, result.src, result.dst, GridW)

ShortcutTaken ==
    /\ IdealPath # <<>>
    /\ unobstructed(collisionMap, moverState(collisionMap, result.src), IdealPath,
                    result.width, result.height)

\* The search of the query that was answered.
Searched ==
    AStarSearch(collisionMap, distanceMatrix, result.src, result.dst, result.width, result.height)

\* No element occurs twice in the sequence.
Distinct(seq) == \A i \in 1..Len(seq), j \in 1..Len(seq) : seq[i] = seq[j] => i = j

\* C28: the A* search of findReroutedPath ends: every tile joins the open set
\* at most once and is expanded at most once, after it was discovered, so
\* there are at most as many rounds as tiles; the search stops at the round
\* that expands the tile of dst, and when the open set is exhausted without
\* that round the path is empty.
C28_SearchEnds ==
    (result.op = "findReroutedPath" /\ ~ShortcutTaken) =>
        LET search     == Searched
            dstTileNum == pixelsToTileNum(result.dst, GridW)
        IN  /\ Distinct(search.discoveries)
            /\ Distinct(search.expanded)
            /\ Len(search.expanded) <= Cardinality(Tiles)
            /\ \A k \in 1..Len(search.expanded) :
                  /\ \E n \in 1..Len(search.discoveries) :
                        search.discoveries[n] = search.expanded[k]
                  /\ search.expanded[k] = dstTileNum => k = Len(search.expanded)
            /\ result.path = waypoints(search.path, GridW)
            /\ (\A k \in 1..Len(search.expanded) : search.expanded[k] # dstTileNum)
                  => result.path = <<>>

\* C28 witness: a search that expanded two tiles or more and exhausted the
\* open set without expanding the tile of dst.
C28_Witness ==
    /\ result.op = "findReroutedPath"
    /\ ~ShortcutTaken
    /\ result.path = <<>>
    /\ LET search == Searched
       IN  /\ Len(search.expanded) >= 2
           /\ \A k \in 1..Len(search.expanded) :
                 search.expanded[k] # pixelsToTileNum(result.dst, GridW)

\* The footprint of the query that was answered, anchored at the waypoint,
\* lies inside the map on tiles that are free or held by the mover.
ClearAt(waypoint) ==
    /\ InsideMap(waypoint, result.width, result.height)
    /\ \A t \in Covered(waypoint, result.width, result.height) :
          FreeForMover(collisionMap, result.src, t)

Displacement ==
    (location'[call'.actor].x - call'.area.x) * call'.xDirection
        + (location'[call'.actor].y - call'.area.y) * call'.yDirection

\* The location one step further than the one the actor of the call was left
\* at: a tile, or what was left of the distance when that is less.
NextStep ==
    LET step == Min(MOVEMENT_TILE_SIZE, call'.distance - Displacement)
    IN  Point2D(location'[call'.actor].x + call'.xDirection * step, location'[call'.actor].y + call'.yDirection * step)

\* What moveToClosestPoint does whatever the actor held before: it leaves the
\* actor displaced along the direction by d, 0 <= d <= distance, stopped by
\* the distance or by a next step whose footprint is not available, and
\* changes no tile that another occupant holds and no tile outside the tiles
\* the actor held and its footprint at the final position.
Pushed ==
    /\ location'[call'.actor] =
          Point2D(call'.area.x + call'.xDirection * Displacement, call'.area.y + call'.yDirection * Displacement)
    /\ Displacement \in 0..call'.distance
    /\ \/ Displacement = call'.distance
       \/ ~UnoccupiedByOthers(collisionMap', call'.actor, NextStep, call'.width, call'.height)
    /\ \A t \in Tiles :
          \/ collisionMap'[t] = collisionMap[t]
          \/ (/\ collisionMap[t] \in {FreeState, ActorState(call'.actor)}
              /\ t \in TilesOf(collisionMap, call'.actor) \cup FootprintAt(call'.actor, location'[call'.actor]))

MaxEntries == 3

\* File names, paths and texts are sequences of characters.
DotEntries == {<<".">>, <<".", ".">>}

OtherEntries ==
    {<<".", "t", "m", "x">>,
     <<"a", ".", "t", "m", "x">>,
     <<"b", ".", "t", "m", "x">>,
     <<"a", ".", "t", "x", "t">>,
     <<"a", "t", "m", "x", "s">>,
     <<"a", ".", "t", "m", "x", "~">>}

\* The path of the directory in the file system, and the paths load is
\* called with: with and without the separator at the end.
DirectoryPath == <<"d", "/">>

LoadPaths == {<<"d", "/">>, <<"d">>}

\* The file names whose files may hold a malformed map.
MapLike == {e \in OtherEntries : SubSeq(e, Len(e) - 3, Len(e)) = <<".", "t", "m", "x">>}

\* The directories a region is loaded from: none, or "." and ".." and up to
\* MaxEntries other entries, of which some hold a malformed map.
Directories ==
    {NoDirectory} \cup
    UNION {{[exists |-> TRUE, entries |-> DotEntries \cup others, malformed |-> bad] :
                bad \in SUBSET (MapLike \cap others)} :
            others \in {o \in SUBSET OtherEntries : Cardinality(o) <= MaxEntries}}

\* The test of the first loop of XRegion::load: the name is longer than 4
\* characters and its last 4 characters are ".tmx".
isMapFileName(filename) ==
    /\ Len(filename) > 4
    /\ SubSeq(filename, Len(filename) - 4 + 1, Len(filename)) = <<".", "t", "m", "x">>

\* XMap::XMap(name, mapFile) raises an exception: there is no file of that
\* path, or the map in it is malformed.
XMapThrows(mapFile) ==
    \/ ~(\E e \in directory.entries \ DotEntries : mapFile = DirectoryPath \o e)
    \/ \E e \in directory.malformed : mapFile = DirectoryPath \o e

\* T_T(message): the fatal error; the program does not go on.
T_T == loadState' = "fatal"

\* What the steps of XRegion::load leave alone.
loadFrame == UNCHANGED <<gridVars, dialogueVars, directory>>

\* XRegion::load(path), up to opendir: a directory that cannot be opened is
\* a fatal error.
load(newPath) ==
    /\ loadState = "constructed"
    /\ loadPath' = newPath
    /\ IF directory.exists
       THEN dp' = directory.entries /\ loadState' = "readdir"
       ELSE dp' = dp /\ T_T
    /\ UNCHANGED <<files, iter, areas>>
    /\ loadFrame

\* One round of the first loop: readdir returns an entry, in no particular
\* order, and the name is kept when it is the name of a map file.
readdir(entry) ==
    /\ loadState = "readdir"
    /\ entry \in dp
    /\ dp' = dp \ {entry}
    /\ files' = IF isMapFileName(entry) THEN Append(files, entry) ELSE files
    /\ UNCHANGED <<loadPath, iter, areas, loadState>>
    /\ loadFrame

\* readdir returns NULL: closedir, and the second loop begins.
closedir ==
    /\ loadState = "readdir"
    /\ dp = {}
    /\ iter' = 1
    /\ loadState' = "construct"
    /\ UNCHANGED <<loadPath, dp, files, areas>>
    /\ loadFrame

\* Mutant of constructMap: a map that cannot be constructed is skipped.
constructMapSkipping ==
    LET mapFile == loadPath \o files[iter]
        name    == SubSeq(files[iter], 1, Len(files[iter]) - 4)
    IN  /\ loadState = "construct"
        /\ iter <= Len(files)
        /\ areas' = IF XMapThrows(mapFile) THEN areas ELSE (name :> mapFile) @@ areas
        /\ iter' = iter + 1
        /\ UNCHANGED <<loadPath, dp, files, loadState>>
        /\ loadFrame

\* One round of the second loop: the map of the file is constructed and
\* registered under its name, the file name without its last 4 characters;
\* an exception of the construction is a fatal error.
constructMap ==
    LET mapFile == loadPath \o files[iter]
        name    == SubSeq(files[iter], 1, Len(files[iter]) - 4)
    IN  /\ loadState = "construct"
        /\ iter <= Len(files)
        /\ IF XMapThrows(mapFile)
           THEN /\ T_T
                /\ UNCHANGED <<areas, iter>>
           ELSE /\ areas' = (name :> mapFile) @@ areas
                /\ iter' = iter + 1
                /\ UNCHANGED loadState
        /\ UNCHANGED <<loadPath, dp, files>>
        /\ loadFrame

\* The second loop is through: load returns.
loadReturns ==
    /\ loadState = "construct"
    /\ iter > Len(files)
    /\ loadState' = "loaded"
    /\ UNCHANGED <<loadPath, dp, files, iter, areas>>
    /\ loadFrame

\* A region was constructed for a directory of the file system.
RegionInit ==
    /\ mapData = NoMap
    /\ collisionMap = NoGrid
    /\ distanceMatrix = NoGrid
    /\ successorMatrix = NoGrid
    /\ location = [a \in Actors |-> Point2D(0, 0)]
    /\ onMap = {}
    /\ moving = [a \in Actors |-> NoMove]
    /\ preAdd = NoSnapshot
    /\ call = Call("EntityGrid", NULL, Point2D(0, 0), 0, 0, TRUE, FALSE)
    /\ aborted = FALSE
    /\ result = NoResult
    /\ DialogueConstructed
    /\ directory \in Directories
    /\ loadPath = <<>>
    /\ dp = {}
    /\ files = <<>>
    /\ iter = 1
    /\ areas = <<>>
    /\ loadState = "constructed"

RegionNext ==
    \/ \E newPath \in LoadPaths : load(newPath)
    \/ \E entry \in OtherEntries \cup DotEntries : readdir(entry)
    \/ closedir
    \/ constructMap
    \/ loadReturns

RegionSpec == RegionInit /\ [][RegionNext]_vars

(* -------------------------------------------------- DialogueController *)

\* The number of characters of a line of dialogue.
MaxText == 4

\* The time a line of dialogue is followed for, in milliseconds.
MaxTime == 300

\* LineType
LineTypes == {"NARRATE", "SAY"}

\* The speeches narrate and say are called with.
Speeches == {<<>>, <<"a">>, <<"b", "c">>}

\* The times timePassed is called with: a long, in milliseconds.
Times == {-50, 0, 50, 100, 250}

\* Line::Line(type, speech)
Line(type, speech) == [type |-> type, dialogue |-> speech]

\* DialogueController::setDialogue: the box of a narration is transparent
\* and centred, the box of a speech is opaque and aligned left; both are
\* made visible. The position and the colours of the box are left out.
setDialogue(type) ==
    IF type = "NARRATE"
    THEN [mainDialogue EXCEPT !.opaque = FALSE, !.alignment = "CENTER", !.visible = TRUE]
    ELSE [mainDialogue EXCEPT !.opaque = TRUE, !.alignment = "LEFT", !.visible = TRUE]

\* What the calls of the dialogue controller leave alone.
dialogueFrame == UNCHANGED <<gridVars, regionVars>>

\* DialogueController::addLine, called by narrate and say: the first line
\* becomes the current line and the box is set up for its type; a later
\* speech is appended to the current line.
addLine(type, speech) ==
    /\ IF currLine = NoLine
       THEN /\ currLine' = Line(type, speech)
            /\ mainDialogue' = setDialogue(type)
       ELSE /\ Len(currLine.dialogue) + Len(speech) <= MaxText
            /\ currLine' = [currLine EXCEPT !.dialogue = currLine.dialogue \o speech]
            /\ UNCHANGED mainDialogue
    /\ UNCHANGED <<dialogueTime, signalled>>
    /\ dialogueFrame

\* dialogue.size() <= charsToShow: the int is converted to the unsigned type
\* of the size, so that a negative number of characters is above every size.
sizeAtMost(size, charsToShow) == charsToShow < 0 \/ size <= charsToShow

\* DialogueController::advanceDialogue at a dialogue time: a character is
\* shown for every 100 milliseconds; when the line has no more characters
\* than that, the whole line is shown, the dialogue time becomes -1 and
\* ticket 0 is signalled.
advanceDialogue(time) ==
    LET charsToShow == CDiv(time, 100)
        dialogue    == currLine.dialogue
    IN  IF sizeAtMost(Len(dialogue), charsToShow)
        THEN [dialogueTime |-> -1, text |-> SubSeq(dialogue, 1, Len(dialogue)), signals |-> 1]
        ELSE [dialogueTime |-> time, text |-> SubSeq(dialogue, 1, charsToShow), signals |-> 0]

\* Mutant of dialogueComplete: the dialogue is complete while the whole line
\* is on display.
dialogueCompleteWhileShown == currLine # NoLine /\ mainDialogue.text = currLine.dialogue

\* DialogueController::dialogueComplete
dialogueComplete == dialogueTime = -1

\* DialogueController::hasDialogue
hasDialogue == currLine # NoLine

\* DialogueController::timePassed: the dialogue advances by the time when
\* there is a line and it is not complete; otherwise nothing happens.
timePassed(time) ==
    /\ IF hasDialogue /\ ~dialogueComplete
       THEN LET advanced == advanceDialogue(dialogueTime + time)
            IN  /\ dialogueTime + time \in (-MaxTime)..MaxTime
                /\ dialogueTime' = advanced.dialogueTime
                /\ mainDialogue' = [mainDialogue EXCEPT !.text = advanced.text]
                /\ signalled' = signalled + advanced.signals
       ELSE UNCHANGED <<dialogueTime, mainDialogue, signalled>>
    /\ UNCHANGED currLine
    /\ dialogueFrame

\* A dialogue controller was constructed.
DialogueInit ==
    /\ mapData = NoMap
    /\ collisionMap = NoGrid
    /\ distanceMatrix = NoGrid
    /\ successorMatrix = NoGrid
    /\ location = [a \in Actors |-> Point2D(0, 0)]
    /\ onMap = {}
    /\ moving = [a \in Actors |-> NoMove]
    /\ preAdd = NoSnapshot
    /\ call = Call("EntityGrid", NULL, Point2D(0, 0), 0, 0, TRUE, FALSE)
    /\ aborted = FALSE
    /\ result = NoResult
    /\ RegionUnloaded
    /\ DialogueConstructed

DialogueNext ==
    \/ \E type \in LineTypes, speech \in Speeches : addLine(type, speech)
    \/ \E time \in Times : timePassed(time)

DialogueSpec == DialogueInit /\ [][DialogueNext]_vars

(* -------------------------------------------------- claims C31..C33 *)

\* The tiles next to the footprint of an actor anchored at a location, in the
\* row and the column of its anchor: left of it, above it, right of its last
\* column and below its last row.
FrontTiles(actor, at) ==
    LET anchor == TileUnder(at)
    IN  {Point2D(anchor.x - 1, anchor.y), Point2D(anchor.x, anchor.y - 1),
         Point2D(anchor.x + getWidth(actor) \div MOVEMENT_TILE_SIZE, anchor.y),
         Point2D(anchor.x, anchor.y + getHeight(actor) \div MOVEMENT_TILE_SIZE)}

EndsInTmx(name) ==
    /\ Len(name) > 4
    /\ name[Len(name) - 3] = "."
    /\ name[Len(name) - 2] = "t"
    /\ name[Len(name) - 1] = "m"
    /\ name[Len(name)] = "x"

\* The name a map of the file is registered under.
MapNameOf(entry) == [k \in 1..(Len(entry) - 4) |-> entry[k]]

\* Every registered map is the well-formed map of a directory entry whose
\* name is longer than 4 characters and ends in ".tmx"; when load has
\* returned every such entry is registered, so none of them was malformed;
\* when load has died in the second loop, the maps before the broken one are
\* registered and neither the broken one nor any after it.
RegionLoadedOrDead ==
    /\ \A k \in 1..Len(files) : files[k] \in directory.entries /\ EndsInTmx(files[k])
    /\ \A n \in DOMAIN areas :
          \E e \in directory.entries \ directory.malformed :
              EndsInTmx(e) /\ n = MapNameOf(e) /\ areas[n] = DirectoryPath \o e
    /\ loadState = "loaded" =>
          \A e \in directory.entries :
              EndsInTmx(e) => (e \notin directory.malformed /\ MapNameOf(e) \in DOMAIN areas)
    /\ (loadState = "fatal" /\ directory.exists) =>
          /\ iter \in 1..Len(files)
          /\ files[iter] \in directory.malformed \/ loadPath # DirectoryPath
          /\ DOMAIN areas = {MapNameOf(files[k]) : k \in 1..(iter - 1)}

\* C32: loading a region never silently ignores a malformed map: only the
\* directory entries whose name is longer than 4 characters and ends in
\* ".tmx" are loaded as maps, and when the construction of one of them raises
\* an exception the load ends in the fatal error, after which nothing
\* happens: the remaining maps are not loaded and the broken one is not
\* registered.
C32_MalformedMapIsFatal == [](RegionLoadedOrDead) /\ [][loadState # "fatal"]_vars

\* C32 witness: the load died on the first of two map files, a malformed
\* one; the second, a well-formed one, was not loaded.
C32_Witness ==
    /\ loadState = "fatal"
    /\ loadPath = DirectoryPath
    /\ Len(files) = 2
    /\ iter = 1
    /\ files[1] \in directory.malformed
    /\ files[2] \notin directory.malformed
    /\ areas = <<>>

\* The first sequence is the beginning of the second.
IsPrefix(shown, whole) == Len(shown) <= Len(whole) /\ \A k \in 1..Len(shown) : shown[k] = whole[k]

\* The text on display is a prefix of the dialogue of the current line, and
\* no text is on display while there is no line.
DisplayedPrefix ==
    IF currLine = NoLine
    THEN mainDialogue.text = <<>>
    ELSE IsPrefix(mainDialogue.text, currLine.dialogue)

\* The whole of the current line is on display.
WholeLineShown == currLine # NoLine /\ mainDialogue.text = currLine.dialogue

\* A step of timePassed that puts text on display or moves the dialogue
\* time: the line is the same and something else changed.
Shows == currLine # NoLine /\ currLine' = currLine /\ dialogueVars' # dialogueVars

\* From a complete dialogue on nothing but the line changes: the text on
\* display, the box, the dialogue time and the signals of the ticket stay.
Frozen == UNCHANGED <<dialogueTime, mainDialogue, signalled>>

\* C33 as stated, with every line: whenever the whole line is on display the
\* dialogue time is -1.
C33_AsStated == WholeLineShown => dialogueTime = -1

\* C33: after any addLine and timePassed calls the text on display is a
\* prefix of the dialogue of the current line; once timePassed has shown the
\* whole line the dialogue time is -1 and the ticket was signalled once; from
\* then on timePassed changes nothing and the ticket is not signalled again,
\* so that text appended to the complete line is never put on display.
C33_CompleteDialogueStays ==
    /\ [](DisplayedPrefix /\ signalled <= 1)
    /\ []((WholeLineShown /\ currLine.dialogue # <<>>) => dialogueTime = -1)
    /\ [][(Shows /\ WholeLineShown') => (dialogueTime' = -1 /\ signalled' = 1)]_vars
    /\ [][dialogueTime = -1 => Frozen]_vars

\* C33 witness: the whole line was shown and the ticket signalled, then a
\* speech was appended that is not on display.
C33_Witness ==
    /\ currLine # NoLine
    /\ dialogueTime = -1
    /\ signalled = 1
    /\ mainDialogue.text # <<>>
    /\ Len(currLine.dialogue) > Len(mainDialogue.text)

====
